---- MODULE Spec2Model ----
(***************************************************************************)
(* A model of the Kiddou tree-walking interpreter (erziebart/pykiddou):    *)
(* the value model, the environments of shared references, the name        *)
(* checker, the evaluator with its block closures, and the file / REPL     *)
(* driver with its error handler.                                          *)
(***************************************************************************)
EXTENDS Integers, Sequences, FiniteSets, TLC

(***************************************************************************)
(* Bounds of the model.                                                    *)
(***************************************************************************)
\* Int payloads of the operand values range over -MaxInt..MaxInt
MaxInt == 2
\* number of REPL lines read in one session
MaxLines == 2
\* number of statements in the source texts of one session, taken together
MaxStmts == 3
\* depth of nested block calls that is followed before the host's
\* recursion limit is taken to be hit
MaxDepth == 3

(***************************************************************************)
(* Host (Python) objects: the payloads of the primitive values.            *)
(* t is the host type; a number is n/d, with d = 0 for the non-finite      *)
(* floats (n = 1: inf, n = -1: -inf, n = 0: nan); s is a str.              *)
(***************************************************************************)
PyNone == [t |-> "none", n |-> 0, d |-> 1, s |-> <<>>]
PyBool(b) == [t |-> "bool", n |-> (IF b THEN 1 ELSE 0), d |-> 1, s |-> <<>>]
PyInt(i) == [t |-> "int", n |-> i, d |-> 1, s |-> <<>>]
PyStr(str) == [t |-> "str", n |-> 0, d |-> 1, s |-> str]

Abs(i) == IF i < 0 THEN -i ELSE i
Sign(i) == IF i < 0 THEN -1 ELSE IF i > 0 THEN 1 ELSE 0

RECURSIVE Gcd(_, _)
Gcd(a, b) == IF b = 0 THEN a ELSE Gcd(b, a % b)

\* a float n/d in lowest terms, d > 0
PyFloat(n, d) ==
  LET g == Gcd(Abs(n), d)
  IN  [t |-> "float", n |-> n \div g, d |-> d \div g, s |-> <<>>]
PyInf(sgn) == [t |-> "float", n |-> sgn, d |-> 0, s |-> <<>>]
PyNan == [t |-> "float", n |-> 0, d |-> 0, s |-> <<>>]

IsPyNum(a) == a.t \in {"bool", "int", "float"}
IsPyFloat(a) == a.t = "float"
IsNan(a) == a.d = 0 /\ a.n = 0
IsInf(a) == a.d = 0 /\ a.n # 0
IsFinite(a) == a.d # 0
\* float(x)
ToFloat(a) == IF a.d = 0 THEN a ELSE PyFloat(a.n, a.d)

\* floor of the finite number n/d, and Python's floor division and modulus
FloorDiv(n, d) == n \div d
\* the quotient rounded towards zero instead of down
PyIntTruncDiv(a, b) == Sign(a) * Sign(b) * (Abs(a) \div Abs(b))
PyIntFloorDiv(a, b) == IF b > 0 THEN a \div b ELSE (-a) \div (-b)
PyIntMod(a, b) == a - b * PyIntFloorDiv(a, b)

RECURSIVE IntPow(_, _)
IntPow(a, b) == IF b = 0 THEN 1 ELSE a * IntPow(a, b - 1)

\* The result of a host operation: exc is "" or the name of the host
\* exception it raises.
PyOk(obj) == [exc |-> "", obj |-> obj]
PyRaise(e) == [exc |-> e, obj |-> PyNone]

\* a + b, a - b, a * b on host numbers (int unless an operand is a float)
NumResult(a, b, n, d) ==
  IF IsPyFloat(a) \/ IsPyFloat(b) THEN PyFloat(n, d) ELSE PyInt(n \div d)

PyAdd(a, b) ==
  IF a.t = "str" /\ b.t = "str" THEN PyStr(a.s \o b.s)
  ELSE IF IsNan(a) \/ IsNan(b) THEN PyNan
  ELSE IF IsInf(a) /\ IsInf(b) THEN (IF a.n = b.n THEN a ELSE PyNan)
  ELSE IF IsInf(a) THEN a
  ELSE IF IsInf(b) THEN b
  ELSE NumResult(a, b, a.n * b.d + b.n * a.d, a.d * b.d)

PyNeg(a) == [a EXCEPT !.n = -a.n, !.t = IF a.t = "bool" THEN "int" ELSE a.t]

PySub(a, b) == PyAdd(a, PyNeg(b))

PyMul(a, b) ==
  IF IsNan(a) \/ IsNan(b) THEN PyNan
  ELSE IF IsInf(a) \/ IsInf(b)
    THEN (IF Sign(a.n) * Sign(b.n) = 0 THEN PyNan ELSE PyInf(Sign(a.n) * Sign(b.n)))
  ELSE NumResult(a, b, a.n * b.n, a.d * b.d)

\* float(a) / float(b)
PyTrueDiv(a, b) ==
  IF IsFinite(b) /\ b.n = 0 THEN PyRaise("ZeroDivisionError")
  ELSE IF IsNan(a) \/ IsNan(b) THEN PyOk(PyNan)
  ELSE IF IsInf(a) THEN (IF IsInf(b) THEN PyOk(PyNan) ELSE PyOk(PyInf(a.n * Sign(b.n))))
  ELSE IF IsInf(b) THEN PyOk(PyFloat(0, 1))
  ELSE PyOk(PyFloat(a.n * b.d * Sign(b.n), a.d * Abs(b.n)))

\* a // b
PyFloorDiv(a, b) ==
  IF IsFinite(b) /\ b.n = 0 THEN PyRaise("ZeroDivisionError")
  ELSE IF ~IsPyFloat(a) /\ ~IsPyFloat(b) THEN PyOk(PyInt(PyIntFloorDiv(a.n, b.n)))
  ELSE IF IsNan(a) \/ IsNan(b) \/ IsInf(a) THEN PyOk(PyNan)
  ELSE IF IsInf(b)
    THEN PyOk(PyFloat(IF a.n # 0 /\ Sign(a.n) # b.n THEN -1 ELSE 0, 1))
  ELSE PyOk(PyFloat(PyIntFloorDiv(a.n * b.d, a.d * b.n), 1))

\* a % b
PyMod(a, b) ==
  IF IsFinite(b) /\ b.n = 0 THEN PyRaise("ZeroDivisionError")
  ELSE IF ~IsPyFloat(a) /\ ~IsPyFloat(b) THEN PyOk(PyInt(PyIntMod(a.n, b.n)))
  ELSE IF IsNan(a) \/ IsNan(b) \/ IsInf(a) THEN PyOk(PyNan)
  ELSE IF IsInf(b)
    THEN PyOk(IF a.n # 0 /\ Sign(a.n) # b.n THEN b ELSE ToFloat(a))
  ELSE LET q == PyIntFloorDiv(a.n * b.d, a.d * b.n)
       IN  PyOk(PyFloat(a.n * b.d - q * b.n * a.d, a.d * b.d))

\* int(x) of a float
PyIntOf(a) ==
  IF IsNan(a) THEN PyRaise("ValueError")
  ELSE IF IsInf(a) THEN PyRaise("OverflowError")
  ELSE PyOk(PyInt(IF a.n >= 0 THEN a.n \div a.d ELSE -((-a.n) \div a.d)))

\* a ** b on two host ints: a float for a negative exponent
PyIntPow(a, b) ==
  IF b.n >= 0 THEN PyOk(PyInt(IntPow(a.n, b.n)))
  ELSE IF a.n = 0 THEN PyRaise("ZeroDivisionError")
  ELSE LET p == IntPow(a.n, -b.n)
       IN  PyOk(PyFloat(Sign(p), Abs(p)))

\* math.pow(a, b), for the exponents whose result is a rational or a
\* non-finite float; any other exponent is outside the operand values
PyMathPow(a, b) ==
  IF IsFinite(b) /\ b.n = 0 THEN PyOk(PyFloat(1, 1))
  ELSE IF IsFinite(a) /\ a.n = a.d THEN PyOk(PyFloat(1, 1))
  ELSE IF IsNan(a) \/ IsNan(b) THEN PyOk(PyNan)
  ELSE IF IsInf(b)
    THEN (IF IsFinite(a) /\ Abs(a.n) = a.d THEN PyOk(PyFloat(1, 1))
          ELSE IF (IsInf(a) \/ Abs(a.n) > a.d) = (b.n > 0) THEN PyOk(PyInf(1))
          ELSE PyOk(PyFloat(0, 1)))
  ELSE IF b.d # 1 THEN
    (IF IsFinite(a) /\ a.n < 0 THEN PyRaise("ValueError") ELSE PyOk(PyNan))
  ELSE IF IsInf(a)
    THEN (IF b.n < 0 THEN PyOk(PyFloat(0, 1))
          ELSE PyOk(PyInf(IF a.n < 0 /\ b.n % 2 = 1 THEN -1 ELSE 1)))
  ELSE IF a.n = 0
    THEN (IF b.n < 0 THEN PyRaise("ValueError") ELSE PyOk(PyFloat(0, 1)))
  ELSE IF b.n > 0 THEN PyOk(PyFloat(IntPow(a.n, b.n), IntPow(a.d, b.n)))
  ELSE LET p == IntPow(a.n, -b.n)
       IN  PyOk(PyFloat(Sign(p) * IntPow(a.d, -b.n), Abs(p)))

\* a == b on host objects (numbers by value, nan equal to nothing)
PyEq(a, b) ==
  IF IsPyNum(a) /\ IsPyNum(b)
    THEN (IF IsNan(a) \/ IsNan(b) THEN FALSE
          ELSE IF a.d = 0 \/ b.d = 0 THEN a.d = b.d /\ a.n = b.n
          ELSE a.n * b.d = b.n * a.d)
  ELSE a.t = b.t /\ a.s = b.s /\ a.n = b.n

\* a < b on host numbers
PyLess(a, b) ==
  IF IsNan(a) \/ IsNan(b) THEN FALSE
  ELSE IF IsInf(a) THEN a.n < 0 /\ ~(IsInf(b) /\ b.n < 0)
  ELSE IF IsInf(b) THEN b.n > 0
  ELSE a.n * b.d < b.n * a.d

(***************************************************************************)
(* Kiddou values.  k is the class of the value, val its payload (only the  *)
(* primitive classes have one), id the identity of a Block (the index of   *)
(* the KiddouBlock object), name the name of a library function.           *)
(***************************************************************************)
Undef == [k |-> "Undef", val |-> PyNone, id |-> 0, name |-> ""]
Bool(b) == [k |-> "Bool", val |-> PyBool(b), id |-> 0, name |-> ""]
KInt(obj) == [k |-> "Int", val |-> obj, id |-> 0, name |-> ""]
Float(obj) == [k |-> "Float", val |-> obj, id |-> 0, name |-> ""]
String(str) == [k |-> "String", val |-> PyStr(str), id |-> 0, name |-> ""]
LibraryFunction(nm) == [k |-> "Func", val |-> PyNone, id |-> 0, name |-> nm]
KiddouBlock(i) == [k |-> "Block", val |-> PyNone, id |-> i, name |-> ""]
KiddouModule == [k |-> "Module", val |-> PyNone, id |-> 0, name |-> ""]

IntV(i) == KInt(PyInt(i))

\* type_name(): the class name, "Func" for functions and blocks
type_name(v) == IF v.k = "Block" THEN "Func" ELSE v.k

\* the classes whose instances carry a val attribute
HasVal(v) == v.k \in {"Bool", "Int", "Float", "String"}

is_number(v) == v.k = "Int" \/ v.k = "Float"

\* is_falsey with the falsiness of the host: 0 and the empty string too
is_falsey_as_host(v) ==
  v.k = "Undef" \/ (v.k \in {"Bool", "Int", "Float"} /\ IsFinite(v.val) /\ v.val.n = 0)
    \/ (v.k = "String" /\ v.val.s = <<>>)

is_falsey(v) == v.k = "Undef" \/ (v.k = "Bool" /\ PyEq(v.val, PyBool(FALSE)))

is_truthy(v) == ~is_falsey(v)

\* KiddouBlock and KiddouModule are the classes declared as Object
IsObject(v) == v.k \in {"Block", "Module"}

\* Function, LibraryFunction and KiddouBlock are the Callable classes
IsCallable(v) == v.k \in {"Func", "Block"}

(***************************************************************************)
(* Results of evaluation.  err is "" for a normal return, one of the       *)
(* RuntimeException classes, or "Host" with the host exception in msg when *)
(* an exception that is not a RuntimeException is raised.                  *)
(***************************************************************************)
RuntimeKinds == {"Type", "Division", "Name", "Immutable", "Attribute", "IndexOutOfBounds"}

Ok(v) == [err |-> "", msg |-> "", val |-> v, line |-> 0, kiddou |-> FALSE]
Raise(kind, m) == [err |-> kind, msg |-> m, val |-> Undef, line |-> 0, kiddou |-> FALSE]
HostRaise(e) == [err |-> "Host", msg |-> e, val |-> Undef, line |-> 0, kiddou |-> FALSE]

\* except RuntimeException as e: raise KiddouError(message=str(e), line=ln)
\* (kiddou tells that the exception is a KiddouError, which is not a
\* RuntimeException and is not wrapped again)
Wrap(res, ln) ==
  IF res.err \in RuntimeKinds /\ ~res.kiddou
    THEN [res EXCEPT !.kiddou = TRUE, !.line = ln]
    ELSE res

type_exception(operator) == Raise("Type", operator)

(***************************************************************************)
(* The handlers of the binary operators, on the values of the operands.    *)
(***************************************************************************)
evaluate_add(l, r) ==
  IF l.k = "Undef" \/ r.k = "Undef" THEN Ok(Undef)
  ELSE IF l.k = "Int" /\ r.k = "Int" THEN Ok(KInt(PyAdd(l.val, r.val)))
  ELSE IF is_number(l) /\ is_number(r) THEN Ok(Float(PyAdd(l.val, r.val)))
  ELSE IF l.k = "String" /\ r.k = "String" THEN Ok(String(PyAdd(l.val, r.val).s))
  ELSE type_exception("+")

evaluate_subtract(l, r) ==
  IF l.k = "Undef" \/ r.k = "Undef" THEN Ok(Undef)
  ELSE IF l.k = "Int" /\ r.k = "Int" THEN Ok(KInt(PySub(l.val, r.val)))
  ELSE IF is_number(l) /\ is_number(r) THEN Ok(Float(PySub(l.val, r.val)))
  ELSE type_exception("-")

evaluate_multiply(l, r) ==
  IF l.k = "Undef" \/ r.k = "Undef" THEN Ok(Undef)
  ELSE IF l.k = "Int" /\ r.k = "Int" THEN Ok(KInt(PyMul(l.val, r.val)))
  ELSE IF is_number(l) /\ is_number(r) THEN Ok(Float(PyMul(l.val, r.val)))
  ELSE type_exception("*")

\* the value of (left / 0): nan for a zero numerator, else the infinity
\* with the sign of the numerator
DivideByZero(l) ==
  IF IsNan(l.val) \/ (IsFinite(l.val) /\ l.val.n = 0) THEN Float(PyNan)
  ELSE Float(PyInf(Sign(l.val.n)))

evaluate_divide(l, r) ==
  IF l.k = "Undef" \/ r.k = "Undef" THEN Ok(Undef)
  ELSE IF is_number(l) /\ is_number(r) THEN
    LET q == PyTrueDiv(l.val, r.val)
    IN  IF q.exc = "ZeroDivisionError" THEN Ok(DivideByZero(l)) ELSE Ok(Float(q.obj))
  ELSE type_exception("/")

evaluate_idivide(l, r) ==
  IF l.k = "Undef" \/ r.k = "Undef" THEN Ok(Undef)
  ELSE IF is_number(l) /\ is_number(r) THEN
    LET q == PyFloorDiv(l.val, r.val)
        i == IF q.exc = "" /\ IsPyFloat(q.obj) THEN PyIntOf(q.obj) ELSE q
    IN  IF i.exc = "ZeroDivisionError" THEN Raise("Division", "cannot integer divide by 0")
        ELSE IF i.exc = "ValueError" THEN Raise("Division", "cannot integer divide into")
        ELSE IF i.exc # "" THEN HostRaise(i.exc)
        ELSE Ok(KInt(i.obj))
  ELSE type_exception("//")

evaluate_modulus(l, r) ==
  IF l.k = "Undef" \/ r.k = "Undef" THEN Ok(Undef)
  ELSE IF l.k = "Int" /\ r.k = "Int" THEN
    LET q == PyMod(l.val, r.val)
    IN  IF q.exc = "ZeroDivisionError" THEN Raise("Division", "cannot integer divide by 0")
        ELSE Ok(KInt(q.obj))
  ELSE IF is_number(l) /\ is_number(r) THEN
    LET q == PyMod(l.val, r.val)
    IN  IF q.exc = "ZeroDivisionError" THEN Ok(DivideByZero(l)) ELSE Ok(Float(q.obj))
  ELSE type_exception("%")

evaluate_power(l, r) ==
  IF l.k = "Undef" \/ r.k = "Undef" THEN Ok(Undef)
  ELSE IF l.k = "Int" /\ r.k = "Int" THEN
    LET p == IF IsPyFloat(l.val) \/ IsPyFloat(r.val)
               THEN PyMathPow(l.val, r.val) ELSE PyIntPow(l.val, r.val)
    IN  IF p.exc # "" THEN HostRaise(p.exc) ELSE Ok(KInt(p.obj))
  ELSE IF is_number(l) /\ is_number(r) THEN
    LET p == PyMathPow(l.val, r.val)
    IN  IF p.exc = "ValueError" THEN Ok(Float(PyNan))
        ELSE IF p.exc # "" THEN HostRaise(p.exc)
        ELSE Ok(Float(p.obj))
  ELSE type_exception("^")

evaluate_equal(l, r) ==
  IF l.k = "Undef" \/ r.k = "Undef" THEN Ok(Undef)
  ELSE IF ~HasVal(l) \/ ~HasVal(r) THEN HostRaise("AttributeError")
  ELSE Ok(Bool(PyEq(l.val, r.val)))

evaluate_not_equal(l, r) ==
  IF l.k = "Undef" \/ r.k = "Undef" THEN Ok(Undef)
  ELSE IF ~HasVal(l) \/ ~HasVal(r) THEN HostRaise("AttributeError")
  ELSE Ok(Bool(~PyEq(l.val, r.val)))

\* evaluate_less with the test for Undef left out
evaluate_less_numbers_only(l, r) ==
  IF is_number(l) /\ is_number(r) THEN Ok(Bool(PyLess(l.val, r.val)))
  ELSE type_exception("<")

evaluate_less(l, r) ==
  IF l.k = "Undef" \/ r.k = "Undef" THEN Ok(Undef)
  ELSE IF is_number(l) /\ is_number(r) THEN Ok(Bool(PyLess(l.val, r.val)))
  ELSE type_exception("<")

evaluate_less_equal(l, r) ==
  IF l.k = "Undef" \/ r.k = "Undef" THEN Ok(Undef)
  ELSE IF is_number(l) /\ is_number(r)
    THEN Ok(Bool(PyLess(l.val, r.val) \/ PyEq(l.val, r.val)))
  ELSE type_exception("<=")

evaluate_greater(l, r) ==
  IF l.k = "Undef" \/ r.k = "Undef" THEN Ok(Undef)
  ELSE IF is_number(l) /\ is_number(r) THEN Ok(Bool(PyLess(r.val, l.val)))
  ELSE type_exception(">")

evaluate_greater_equal(l, r) ==
  IF l.k = "Undef" \/ r.k = "Undef" THEN Ok(Undef)
  ELSE IF is_number(l) /\ is_number(r)
    THEN Ok(Bool(PyLess(r.val, l.val) \/ PyEq(l.val, r.val)))
  ELSE type_exception(">=")

\* the operators that evaluate both operands before anything else
StrictOps == {"ADD", "SUBTRACT", "MULTIPLY", "DIVIDE", "IDIVIDE", "MODULUS", "POWER",
              "EQUAL", "NOT_EQUAL", "LESS", "LESS_EQUAL", "GREATER", "GREATER_EQUAL"}

\* the operators that decide on one operand whether to evaluate the other
LazyOps == {"AND", "OR", "DOMAIN", "PIECE"}

\* binary_handlers[operator], for the strict operators
binary_handlers(operator, l, r) ==
  CASE operator = "ADD" -> evaluate_add(l, r)
    [] operator = "SUBTRACT" -> evaluate_subtract(l, r)
    [] operator = "MULTIPLY" -> evaluate_multiply(l, r)
    [] operator = "DIVIDE" -> evaluate_divide(l, r)
    [] operator = "IDIVIDE" -> evaluate_idivide(l, r)
    [] operator = "MODULUS" -> evaluate_modulus(l, r)
    [] operator = "POWER" -> evaluate_power(l, r)
    [] operator = "EQUAL" -> evaluate_equal(l, r)
    [] operator = "NOT_EQUAL" -> evaluate_not_equal(l, r)
    [] operator = "LESS" -> evaluate_less(l, r)
    [] operator = "LESS_EQUAL" -> evaluate_less_equal(l, r)
    [] operator = "GREATER" -> evaluate_greater(l, r)
    [] operator = "GREATER_EQUAL" -> evaluate_greater_equal(l, r)

evaluate_negate(v) ==
  IF v.k = "Undef" THEN Ok(Undef)
  ELSE IF v.k = "Int" THEN Ok(KInt(PyNeg(v.val)))
  ELSE IF v.k = "Float" THEN Ok(Float(PyNeg(v.val)))
  ELSE type_exception("- (unary)")

evaluate_not(v) ==
  IF v.k = "Undef" THEN Ok(Undef)
  ELSE IF v.k = "Bool" THEN Ok(Bool(PyEq(v.val, PyBool(FALSE))))
  ELSE type_exception("!")

unary_handlers(operator, v) ==
  CASE operator = "NEGATE" -> evaluate_negate(v)
    [] operator = "NOT" -> evaluate_not(v)

(***************************************************************************)
(* The abstract syntax tree.  Every expression carries its source line;    *)
(* a statement carries the line of its header keyword.                     *)
(***************************************************************************)
NoExpr == [t |-> "None"]

Literal(v, ln) == [t |-> "Literal", value |-> v, line |-> ln]
Variable(nm, ln) == [t |-> "Variable", name |-> nm, line |-> ln]
Unary(op, e, ln) == [t |-> "Unary", operator |-> op, expr |-> e, line |-> ln]
Binary(l, op, r, ln) == [t |-> "Binary", left |-> l, operator |-> op, right |-> r, line |-> ln]
Call(c, as, ln) == [t |-> "Call", callee |-> c, arguments |-> as, line |-> ln]
Index(c, i, ln) == [t |-> "Index", container |-> c, index |-> i, line |-> ln]
Attribute(o, nm, ln) == [t |-> "Attribute", obj |-> o, name |-> nm, line |-> ln]
\* dependent_names is populated by the checker; checked tells whether it was
Block(ss, e, eager, ln) ==
  [t |-> "Block", stmts |-> ss, expr |-> e, is_eager |-> eager,
   dependent_names |-> {}, checked |-> FALSE, line |-> ln]
Sequence(es, eager, ln) == [t |-> "Sequence", elements |-> es, is_eager |-> eager, line |-> ln]

Con(nm, e, ln) == [t |-> "Con", name |-> nm, expr |-> e, line_start |-> ln]
Run(rcv, e, re, ln) ==
  [t |-> "Run", receiver |-> rcv, expr |-> e, reassign |-> re, line_start |-> ln]

(***************************************************************************)
(* Dictionaries (host dicts from names to Reference objects): functions    *)
(* whose domain is the set of keys.  A Reference is an index into refs;    *)
(* 0 stands for None.                                                      *)
(***************************************************************************)
EmptyDict == [x \in {} |-> 0]
DictGet(d, key) == IF key \in DOMAIN d THEN d[key] ELSE 0
DictSet(d, key, v) == [x \in DOMAIN d \cup {key} |-> IF x = key THEN v ELSE d[x]]
\* a.update(b)
DictUpdate(a, b) == [x \in DOMAIN a \cup DOMAIN b |-> IF x \in DOMAIN b THEN b[x] ELSE a[x]]
DictFilter(d, S) == [x \in DOMAIN d \cap S |-> d[x]]

(***************************************************************************)
(* The object store of the interpreter, threaded through evaluation:       *)
(*   refs    the Reference objects, each a record [val, mutable]           *)
(*   envs    the Environment objects, each a record [env, locals]          *)
(*   blocks  the KiddouBlock objects, each a record [env, body] with the   *)
(*           history fields created and scope                              *)
(*   env     Interpreter.env, the index of the current environment         *)
(*   trace   what the statement being executed has done so far             *)
(* Environment 1 is Interpreter.globals.                                   *)
(***************************************************************************)
Reference(v, m) == [val |-> v, mutable |-> m]
\* origin keeps the environment a copy was made from (0: none)
Environment(d) == [env |-> d, locals |-> EmptyDict, origin |-> 0]

Globals == 1

\* copy_retain returning the retained locals only
copy_retain_locals_only(st, e, names) ==
  [st EXCEPT !.envs = Append(@, [Environment(DictFilter(st.envs[e].locals, names))
                                   EXCEPT !.origin = e])]

\* Environment.copy_retain: the index of the copy is Len(envs) + 1
copy_retain(st, e, names) ==
  [st EXCEPT !.envs = Append(@, [Environment(DictUpdate(DictFilter(st.envs[e].locals, names),
                                                         st.envs[e].env))
                                   EXCEPT !.origin = e])]

\* Environment.keys, as the set the checker collects
keys(st, e) == DOMAIN st.envs[e].env \cup DOMAIN st.envs[e].locals

\* bind writing the Reference a local of the name already has
bind_reusing_reference(st, e, nm, value, m) ==
  IF DictGet(st.envs[e].locals, nm) # 0 THEN
    [st EXCEPT !.refs[DictGet(st.envs[e].locals, nm)] = Reference(value, m),
               !.trace = Append(@, [ev |-> "bind", env |-> e, name |-> nm,
                                    ref |-> DictGet(st.envs[e].locals, nm), mutable |-> m,
                                    val |-> value])]
  ELSE
    [st EXCEPT !.refs = Append(@, Reference(value, m)),
               !.envs[e].locals = DictSet(@, nm, Len(st.refs) + 1),
               !.trace = Append(@, [ev |-> "bind", env |-> e, name |-> nm,
                                    ref |-> Len(st.refs) + 1, mutable |-> m, val |-> value])]

\* Environment.bind
bind(st, e, nm, value, m) ==
  [st EXCEPT !.refs = Append(@, Reference(value, m)),
             !.envs[e].locals = DictSet(@, nm, Len(st.refs) + 1),
             !.trace = Append(@, [ev |-> "bind", env |-> e, name |-> nm,
                                  ref |-> Len(st.refs) + 1, mutable |-> m, val |-> value])]

\* the Reference that get and overwrite find: locals first, then env
Lookup(st, e, nm) ==
  IF DictGet(st.envs[e].locals, nm) # 0 THEN DictGet(st.envs[e].locals, nm)
  ELSE DictGet(st.envs[e].env, nm)

\* The outcomes of the Environment methods: the store and the result
Out(st, res) == [st |-> st, res |-> res]

OverwriteEvent(st, e, nm, r, value, err) ==
  [ev |-> "overwrite", env |-> e, name |-> nm, ref |-> r,
   mutable |-> IF r = 0 THEN FALSE ELSE st.refs[r].mutable,
   old |-> IF r = 0 THEN Undef ELSE st.refs[r].val, new |-> value, err |-> err]

\* WriteRef with the test of ref.mutable left out
WriteRef_unchecked(st, e, nm, ref, value) ==
  IF ref = 0 THEN
    Out([st EXCEPT !.trace = Append(@, OverwriteEvent(st, e, nm, ref, value, "Name"))],
        Raise("Name", "undefined variable"))
  ELSE
    Out([st EXCEPT !.refs[ref].val = value,
                   !.trace = Append(@, OverwriteEvent(st, e, nm, ref, value, ""))],
        Ok(Undef))

\* ref is the Reference found for nm (0: none): the tests and the write of
\* overwrite and overwrite_local
WriteRef(st, e, nm, ref, value) ==
  IF ref = 0 THEN
    Out([st EXCEPT !.trace = Append(@, OverwriteEvent(st, e, nm, ref, value, "Name"))],
        Raise("Name", "undefined variable"))
  ELSE IF ~st.refs[ref].mutable THEN
    Out([st EXCEPT !.trace = Append(@, OverwriteEvent(st, e, nm, ref, value, "Immutable"))],
        Raise("Immutable", "immutable variable"))
  ELSE
    Out([st EXCEPT !.refs[ref].val = value,
                   !.trace = Append(@, OverwriteEvent(st, e, nm, ref, value, ""))],
        Ok(Undef))

\* Environment.overwrite
overwrite(st, e, nm, value) == WriteRef(st, e, nm, Lookup(st, e, nm), value)

\* Environment.overwrite_local
overwrite_local(st, e, nm, value) ==
  WriteRef(st, e, nm, DictGet(st.envs[e].locals, nm), value)

\* the value of Reference ref, or the NameException for None
Deref(st, ref) ==
  IF ref = 0 THEN Raise("Name", "undefined variable") ELSE Ok(st.refs[ref].val)

\* Environment.get
get(st, e, nm) == Deref(st, Lookup(st, e, nm))

\* Environment.get_local
get_local(st, e, nm) == Deref(st, DictGet(st.envs[e].locals, nm))

(***************************************************************************)
(* The checker.  VisibleNames is a chain of scopes: a sequence of sets of  *)
(* names, the innermost scope last.  A check returns the names used, the   *)
(* errors reported to the error handler (in order) and the node with the   *)
(* dependent_names of its blocks populated.                                *)
(***************************************************************************)
KiddouError(m, ln) == [message |-> m, line |-> ln]

\* VisibleNames.__contains__
Visible(nm, vis) == \E i \in 1..Len(vis) : nm \in vis[i]

\* VisibleNames.add, on the innermost scope
AddVisible(vis, nm) == [vis EXCEPT ![Len(vis)] = @ \cup {nm}]

report_undefined(nm, ln) == KiddouError(<<"undefined variable", nm>>, ln)
report_unsupported_construct(c, ln) == KiddouError(<<"constructor not supported", c>>, ln)
report_attribute_creation(ln) == KiddouError(<<"attribute creation not allowed", "">>, ln)

Checked(used, errs, node) == [names_used |-> used, errs |-> errs, node |-> node]
StatementNames(used, declared, errs, node) ==
  [names_used |-> used, name_declared |-> declared, errs |-> errs, node |-> node]

\* name_declared = None
NoName == ""

\* a sub-result o, computed first, then what the handler does with it
Then(o, F(_)) == CHOOSE r \in {F(x) : x \in {o}} : TRUE

RECURSIVE check_expr(_, _)
RECURSIVE check_exprs(_, _, _, _)
RECURSIVE check_stmt(_, _)
RECURSIVE check_block_stmts(_, _, _, _)
RECURSIVE check_from(_, _, _)

\* the checks of the expressions lo to hi of a list in order, as the
\* checks of the first half of them and then of the second half: the union
\* of the names used, the errors and the nodes
check_exprs(es, lo, hi, vis) ==
  IF lo > hi THEN Checked({}, <<>>, <<>>)
  ELSE IF lo = hi THEN
    Then(check_expr(es[lo], vis), LAMBDA c : Checked(c.names_used, c.errs, <<c.node>>))
  ELSE Then(check_exprs(es, lo, (lo + hi) \div 2, vis), LAMBDA first :
       Then(check_exprs(es, (lo + hi) \div 2 + 1, hi, vis), LAMBDA rest :
         Checked(first.names_used \cup rest.names_used, first.errs \o rest.errs,
                 first.node \o rest.node)))

check_binary(binary, vis) ==
  Then(check_expr(binary.left, vis), LAMBDA l :
  Then(check_expr(binary.right, vis), LAMBDA r :
    Checked(l.names_used \cup r.names_used, l.errs \o r.errs,
            [binary EXCEPT !.left = l.node, !.right = r.node])))

check_unary(unary, vis) ==
  Then(check_expr(unary.expr, vis), LAMBDA c :
    Checked(c.names_used, c.errs, [unary EXCEPT !.expr = c.node]))

check_literal(literal, vis) == Checked({}, <<>>, literal)

check_variable(variable, vis) ==
  Checked({variable.name},
          IF ~Visible(variable.name, vis)
            THEN <<report_undefined(variable.name, variable.line)>> ELSE <<>>,
          variable)

check_call(call, vis) ==
  Then(check_expr(call.callee, vis), LAMBDA c :
  Then(check_exprs(call.arguments, 1, Len(call.arguments), vis), LAMBDA as :
    Checked(c.names_used \cup as.names_used, c.errs \o as.errs,
            [call EXCEPT !.callee = c.node, !.arguments = as.node])))

check_index(index, vis) ==
  Then(check_expr(index.container, vis), LAMBDA c :
  Then(check_expr(index.index, vis), LAMBDA i :
    Checked(c.names_used \cup i.names_used, c.errs \o i.errs,
            [index EXCEPT !.container = c.node, !.index = i.node])))

check_attribute(attribute, vis) ==
  Then(check_expr(attribute.obj, vis), LAMBDA c :
    Checked(c.names_used, c.errs, [attribute EXCEPT !.obj = c.node]))

\* the loop over the statements of a block body, from statement i on: acc
\* is what the loop has collected so far (its node the list of checked
\* statements, its name_declared the set inner_names.names)
check_block_stmts(stmts, i, vis, acc) ==
  IF i > Len(stmts) THEN acc
  ELSE Then(check_stmt(stmts[i], Append(vis, acc.name_declared)), LAMBDA sn :
         check_block_stmts(stmts, i + 1, vis,
           StatementNames(
             acc.names_used \cup {nm \in sn.names_used : nm \notin acc.name_declared},
             IF sn.name_declared # NoName THEN acc.name_declared \cup {sn.name_declared}
             ELSE acc.name_declared,
             acc.errs \o sn.errs,
             Append(acc.node, sn.node))))

\* the names of the enclosing scope a block with these uses depends on
dependent_names(names, names_used) == names \cap names_used

check_block(block, vis) ==
  Then(check_block_stmts(block.stmts, 1, vis, StatementNames({}, {"this"}, <<>>, <<>>)),
       LAMBDA body :
  Then(IF block.expr # NoExpr THEN check_expr(block.expr, Append(vis, body.name_declared))
       ELSE Checked({}, <<>>, NoExpr), LAMBDA tail :
  Then(body.names_used \cup {nm \in tail.names_used : nm \notin body.name_declared},
       LAMBDA names_used :
    Checked(names_used,
            (IF block.is_eager
               THEN <<report_unsupported_construct("[<block>]", block.line)>> ELSE <<>>)
              \o body.errs \o tail.errs,
            [block EXCEPT !.stmts = body.node, !.expr = tail.node,
                          !.dependent_names = dependent_names(vis[Len(vis)], names_used),
                          !.checked = TRUE]))))

check_sequence(sequence, vis) ==
  Then(check_exprs(sequence.elements, 1, Len(sequence.elements), vis), LAMBDA es :
    Checked(es.names_used,
            (IF ~sequence.is_eager
               THEN <<report_unsupported_construct("{<seq>}", sequence.line)>> ELSE <<>>)
              \o es.errs,
            [sequence EXCEPT !.elements = es.node]))

\* Checker._check_expr: expr_handlers[expr.__class__]
check_expr(expr, vis) ==
  CASE expr.t = "Binary" -> check_binary(expr, vis)
    [] expr.t = "Unary" -> check_unary(expr, vis)
    [] expr.t = "Literal" -> check_literal(expr, vis)
    [] expr.t = "Variable" -> check_variable(expr, vis)
    [] expr.t = "Call" -> check_call(expr, vis)
    [] expr.t = "Index" -> check_index(expr, vis)
    [] expr.t = "Attribute" -> check_attribute(expr, vis)
    [] expr.t = "Block" -> check_block(expr, vis)
    [] expr.t = "Sequence" -> check_sequence(expr, vis)

check_con(con, vis) ==
  Then(check_expr(con.expr, vis), LAMBDA c :
    StatementNames(c.names_used, con.name, c.errs, [con EXCEPT !.expr = c.node]))

\* the name a Run with a Variable receiver declares
run_name_declared(run) == run.receiver.name

\* the Run whose receiver is a Variable; c is the check of run.expr
check_run_variable(run, vis, c) ==
  IF run.reassign
    THEN StatementNames(c.names_used \cup {run.receiver.name}, run_name_declared(run),
           c.errs \o (IF ~Visible(run.receiver.name, vis)
                        THEN <<report_undefined(run.receiver.name, run.receiver.line)>>
                        ELSE <<>>),
           [run EXCEPT !.expr = c.node])
    ELSE StatementNames(c.names_used, run_name_declared(run), c.errs,
                        [run EXCEPT !.expr = c.node])

check_run(run, vis) ==
  Then(check_expr(run.expr, vis), LAMBDA c :
    IF run.receiver = NoExpr
      THEN StatementNames(c.names_used, NoName, c.errs, [run EXCEPT !.expr = c.node])
    ELSE IF run.receiver.t = "Variable" THEN check_run_variable(run, vis, c)
    ELSE IF run.receiver.t = "Attribute" THEN
      Then(check_expr(run.receiver, vis), LAMBDA rcv :
        StatementNames(c.names_used \cup rcv.names_used, NoName,
          c.errs \o (IF ~run.reassign
                       THEN <<report_attribute_creation(run.receiver.line)>> ELSE <<>>)
                 \o rcv.errs,
          [run EXCEPT !.expr = c.node, !.receiver = rcv.node]))
    ELSE IF run.receiver.t = "Index" THEN
      Then(check_expr(run.receiver, vis), LAMBDA rcv :
        StatementNames(c.names_used \cup rcv.names_used, NoName, c.errs \o rcv.errs,
                       [run EXCEPT !.expr = c.node, !.receiver = rcv.node]))
    ELSE StatementNames(c.names_used, NoName, c.errs, [run EXCEPT !.expr = c.node]))

\* Checker._check_stmt: stmt_handlers[stmt.__class__]
check_stmt(stmt, vis) ==
  CASE stmt.t = "Con" -> check_con(stmt, vis)
    [] stmt.t = "Run" -> check_run(stmt, vis)

\* the loop of Checker.check from statement i on: the name a statement
\* declares is visible to the statements after it
check_from(stmts, i, vis) ==
  IF i > Len(stmts) THEN Checked({}, <<>>, <<>>)
  ELSE Then(check_stmt(stmts[i], vis), LAMBDA sn :
       Then(check_from(stmts, i + 1,
                       IF sn.name_declared # NoName THEN AddVisible(vis, sn.name_declared)
                       ELSE vis), LAMBDA rest :
         Checked(sn.names_used \cup rest.names_used, sn.errs \o rest.errs,
                 <<sn.node>> \o rest.node)))

\* Checker.check: the errors reported and the statements with their blocks
\* annotated
check(stmts, environment_keys) == check_from(stmts, 1, <<environment_keys>>)

(***************************************************************************)
(* The interpreter.  Every operator takes the store and returns the store  *)
(* after it together with its result; depth is the number of block calls   *)
(* in progress.                                                            *)
(***************************************************************************)
IsError(o) == o.res.err # ""

\* one more entry in the trace of the statement being executed
Event(st, e) == [st EXCEPT !.trace = Append(@, e)]

RECURSIVE evaluate_expr(_, _, _)
RECURSIVE execute_stmt(_, _, _)
RECURSIVE evaluate_arguments(_, _, _, _, _)
RECURSIVE execute_stmts(_, _, _, _)

\* [self._evaluate_expr(arg) for arg in call.arguments] for the arguments
\* lo to hi, as the first half of them and then the second half; vals is
\* the list of the values
evaluate_arguments(args, lo, hi, st, depth) ==
  IF lo > hi THEN [st |-> st, res |-> Ok(Undef), vals |-> <<>>]
  ELSE IF lo = hi THEN
    Then(evaluate_expr(args[lo], st, depth), LAMBDA a :
      [st |-> a.st, res |-> IF IsError(a) THEN a.res ELSE Ok(Undef),
       vals |-> IF IsError(a) THEN <<>> ELSE <<a.res.val>>])
  ELSE Then(evaluate_arguments(args, lo, (lo + hi) \div 2, st, depth), LAMBDA first :
         IF first.res.err # "" THEN first
         ELSE Then(evaluate_arguments(args, (lo + hi) \div 2 + 1, hi, first.st, depth),
                   LAMBDA rest :
                [st |-> rest.st, res |-> rest.res,
                 vals |-> IF rest.res.err # "" THEN <<>> ELSE first.vals \o rest.vals]))

\* for stmt in stmts: self._execute_stmt(stmt), from statement i on
execute_stmts(stmts, i, st, depth) ==
  IF i > Len(stmts) THEN Out(st, Ok(Undef))
  ELSE Then(execute_stmt(stmts[i], st, depth), LAMBDA o :
         IF IsError(o) THEN o ELSE execute_stmts(stmts, i + 1, o.st, depth))

\* the handlers that evaluate left, then right, then combine the values
evaluate_strict(binary, st, depth) ==
  Then(evaluate_expr(binary.left, st, depth), LAMBDA l :
    IF IsError(l) THEN l
    ELSE Then(evaluate_expr(binary.right, l.st, depth), LAMBDA r :
           IF IsError(r) THEN r
           ELSE Out(r.st, binary_handlers(binary.operator, l.res.val, r.res.val))))

evaluate_and(left, right, st, depth) ==
  Then(evaluate_expr(left, st, depth), LAMBDA l :
    IF IsError(l) \/ is_falsey(l.res.val) THEN l ELSE evaluate_expr(right, l.st, depth))

evaluate_or(left, right, st, depth) ==
  Then(evaluate_expr(left, st, depth), LAMBDA l :
    IF IsError(l) \/ is_truthy(l.res.val) THEN l ELSE evaluate_expr(right, l.st, depth))

\* evaluate_domain with the operands evaluated left to right
evaluate_domain_left_first(left, right, st, depth) ==
  Then(evaluate_expr(left, st, depth), LAMBDA l :
    IF IsError(l) THEN l
    ELSE Then(evaluate_expr(right, l.st, depth), LAMBDA r :
           IF IsError(r) THEN r
           ELSE IF is_falsey(r.res.val) THEN Out(r.st, Ok(Undef))
           ELSE Out(r.st, l.res)))

evaluate_domain(left, right, st, depth) ==
  Then(evaluate_expr(right, st, depth), LAMBDA r :
    IF IsError(r) THEN r
    ELSE IF is_falsey(r.res.val) THEN Out(r.st, Ok(Undef))
    ELSE evaluate_expr(left, r.st, depth))

evaluate_piece(left, right, st, depth) ==
  Then(evaluate_expr(left, st, depth), LAMBDA l :
    IF IsError(l) THEN l
    ELSE IF l.res.val.k = "Undef" THEN evaluate_expr(right, l.st, depth)
    ELSE l)

evaluate_binary(binary, st, depth) ==
  CASE binary.operator \in StrictOps -> evaluate_strict(binary, st, depth)
    [] binary.operator = "AND" -> evaluate_and(binary.left, binary.right, st, depth)
    [] binary.operator = "OR" -> evaluate_or(binary.left, binary.right, st, depth)
    [] binary.operator = "DOMAIN" -> evaluate_domain(binary.left, binary.right, st, depth)
    [] binary.operator = "PIECE" -> evaluate_piece(binary.left, binary.right, st, depth)

evaluate_unary(unary, st, depth) ==
  Then(evaluate_expr(unary.expr, st, depth), LAMBDA v :
    IF IsError(v) THEN v ELSE Out(v.st, unary_handlers(unary.operator, v.res.val)))

evaluate_literal(literal, st) == Out(st, Ok(literal.value))

evaluate_variable(variable, st) ==
  Then(get(st, st.env, variable.name), LAMBDA r :
    Out(Event(st, [ev |-> "get", env |-> st.env, name |-> variable.name,
                   err |-> r.err, val |-> r.val]), r))

\* run_block with a _switch_env that does not restore Interpreter.env
run_block_without_restore(block, new_env, st, depth) ==
  Then(execute_stmts(block.stmts, 1, [st EXCEPT !.env = new_env], depth), LAMBDA body :
    IF IsError(body) \/ block.expr = NoExpr THEN body
    ELSE evaluate_expr(block.expr, body.st, depth))

\* run_block inside _switch_env: the body of the block in new_env, with
\* Interpreter.env restored on every exit path
run_block(block, new_env, st, depth) ==
  Then(execute_stmts(block.stmts, 1, [st EXCEPT !.env = new_env], depth), LAMBDA body :
  Then(IF IsError(body) \/ block.expr = NoExpr THEN body
       ELSE evaluate_expr(block.expr, body.st, depth), LAMBDA o :
    Out([o.st EXCEPT !.env = st.env], o.res)))

\* what the names of dictionary d are bound to: the Reference, its flag
\* and its value
BindingsOf(st, d) ==
  [nm \in DOMAIN d |-> [ref |-> d[nm], mutable |-> st.refs[d[nm]].mutable,
                        val |-> st.refs[d[nm]].val]]

\* the bindings of environment e, as the events of a call record them
Bindings(st, e) ==
  [locals |-> BindingsOf(st, st.envs[e].locals), env |-> BindingsOf(st, st.envs[e].env)]

\* KiddouBlock.wrapped_func, the func of block b, which runs the body in
\* new_env: new_env = self.env.copy_retain(set()); finally: self.env = new_env
call_in(b, new_env, st, depth) ==
  Then(run_block(st.blocks[b].body, new_env,
                 Event(st, [ev |-> "call", block |-> b, env |-> new_env, depth |-> depth,
                            caller |-> st.env,
                            before |-> Bindings(st, st.env),
                            captured |-> st.envs[new_env].env,
                            locals |-> st.envs[new_env].locals]),
                 depth + 1), LAMBDA o :
    Out(Event([o.st EXCEPT !.blocks[b].env = new_env],
              [ev |-> "return", block |-> b, env |-> new_env, depth |-> depth,
               err |-> o.res.err, val |-> o.res.val, current |-> o.st.env,
               after |-> Bindings(o.st, st.env),
               locals |-> [nm \in DOMAIN o.st.envs[new_env].locals |->
                             o.st.refs[o.st.envs[new_env].locals[nm]].val]]),
        o.res))

\* wrapped_func running the body in self.env itself instead of a copy
wrapped_func_in_place(b, st, depth) ==
  IF depth >= MaxDepth THEN Out(st, HostRaise("RecursionError"))
  ELSE call_in(b, st.blocks[b].env, st, depth)

\* the frames of a call beyond MaxDepth exceed the host's recursion limit
wrapped_func(b, st, depth) ==
  IF depth >= MaxDepth THEN Out(st, HostRaise("RecursionError"))
  ELSE Then(copy_retain(st, st.blocks[b].env, {}), LAMBDA copied :
         call_in(b, Len(copied.envs), copied, depth))

\* the pervasive print: writes to stdout and returns Undef
pervasive_print(args, st) == Out(st, Ok(Undef))

\* call running the body of a Block in the environment of the caller
call_in_caller(callee, args, st, depth) ==
  IF callee.k = "Block" THEN
    IF depth >= MaxDepth THEN Out(st, HostRaise("RecursionError"))
    ELSE call_in(callee.id, st.env, st, depth)
  ELSE pervasive_print(args, st)

\* Function.call
call(callee, args, st, depth) ==
  IF callee.k = "Block" THEN wrapped_func(callee.id, st, depth)
  ELSE pervasive_print(args, st)

evaluate_call(expr, st, depth) ==
  Then(evaluate_expr(expr.callee, st, depth), LAMBDA c :
    IF IsError(c) THEN c
    ELSE IF ~IsCallable(c.res.val) THEN Out(c.st, Raise("Type", "is not callable"))
    ELSE Then(evaluate_arguments(expr.arguments, 1, Len(expr.arguments), c.st, depth), LAMBDA as :
           IF as.res.err # "" THEN Out(as.st, as.res)
           ELSE call(c.res.val, as.vals, as.st, depth)))

\* except NameException: raise AttributeException
AsAttribute(res) ==
  IF res.err = "Name" /\ ~res.kiddou THEN Raise("Attribute", "undefined attribute") ELSE res

\* the Environment behind an Object: the globals for the module, self.env
\* for a block
ObjectEnv(v, st) == IF v.k = "Module" THEN Globals ELSE st.blocks[v.id].env

\* KiddouModule.get_attr and KiddouBlock.get_attr
get_attr(v, nm, st) == AsAttribute(get_local(st, ObjectEnv(v, st), nm))

evaluate_attribute(attribute, st, depth) ==
  Then(evaluate_expr(attribute.obj, st, depth), LAMBDA o :
    IF IsError(o) THEN o
    ELSE IF ~IsObject(o.res.val) THEN Out(o.st, Raise("Type", "does not have attributes"))
    ELSE Then(get_attr(o.res.val, attribute.name, o.st), LAMBDA r :
           Out(Event(o.st, [ev |-> "get_attr", obj |-> o.res.val, name |-> attribute.name,
                            err |-> r.err, val |-> r.val]), r)))

\* block_env = self.env.copy_retain(block.dependent_names) and
\* KiddouBlock(func=run_block, name=None, env=block_env); created keeps the
\* environment the block was constructed with and scope the references
\* that the names it holds denoted in the enclosing environment
evaluate_block(block, st) ==
  Then(copy_retain(st, st.env, block.dependent_names), LAMBDA copied :
    Out(Event([copied EXCEPT !.blocks =
                 Append(@, [env |-> Len(copied.envs), body |-> block,
                            created |-> Len(copied.envs),
                            scope |-> [nm \in DOMAIN copied.envs[Len(copied.envs)].env |->
                                         Lookup(st, st.env, nm)]])],
              [ev |-> "block", block |-> Len(copied.blocks) + 1,
               env |-> Len(copied.envs), enclosing |-> st.env]),
        Ok(KiddouBlock(Len(copied.blocks) + 1))))

\* Interpreter._evaluate_expr: expr_handlers[expr.__class__], which has no
\* entry for Index and Sequence
evaluate_expr(expr, st, depth) ==
  Then(CASE expr.t = "Binary" -> evaluate_binary(expr, st, depth)
         [] expr.t = "Unary" -> evaluate_unary(expr, st, depth)
         [] expr.t = "Literal" -> evaluate_literal(expr, st)
         [] expr.t = "Variable" -> evaluate_variable(expr, st)
         [] expr.t = "Call" -> evaluate_call(expr, st, depth)
         [] expr.t = "Attribute" -> evaluate_attribute(expr, st, depth)
         [] expr.t = "Block" -> evaluate_block(expr, st)
         [] expr.t \in {"Index", "Sequence"} -> Out(st, HostRaise("KeyError")),
       LAMBDA o : Out(o.st, Wrap(o.res, expr.line)))

execute_con(con, st, depth) ==
  Then(evaluate_expr(con.expr, st, depth), LAMBDA v :
    IF IsError(v) THEN v
    ELSE Out(bind(v.st, v.st.env, con.name, v.res.val, FALSE), Ok(Undef)))

\* KiddouModule.set_attr
module_set_attr(st, nm, value) ==
  Then(overwrite_local(st, Globals, nm, value), LAMBDA o : Out(o.st, AsAttribute(o.res)))

\* KiddouBlock.set_attr
block_set_attr(st, b, nm, value) ==
  Out(bind(st, st.blocks[b].env, nm, value, FALSE), Ok(Undef))

\* obj.set_attr(name, value) on the Object v
set_attr(v, nm, value, st) ==
  Then(Event(st, [ev |-> "set_attr", obj |-> v, env |-> ObjectEnv(v, st), name |-> nm,
                  locals |-> st.envs[ObjectEnv(v, st)].locals]), LAMBDA st1 :
    IF v.k = "Module" THEN module_set_attr(st1, nm, value)
    ELSE block_set_attr(st1, v.id, nm, value))

\* the Run whose receiver is a Variable, with the value v of its expression
execute_run_variable(run, v) ==
  IF run.reassign THEN overwrite(v.st, v.st.env, run.receiver.name, v.res.val)
  ELSE Out(bind(v.st, v.st.env, run.receiver.name, v.res.val, TRUE), Ok(Undef))

\* the Run whose receiver is an Attribute
execute_run_attribute(run, v, depth) ==
  Then(evaluate_expr(run.receiver.obj, v.st, depth), LAMBDA o :
    IF IsError(o) THEN o
    ELSE IF ~IsObject(o.res.val) THEN Out(o.st, Raise("Type", "does not have attributes"))
    ELSE set_attr(o.res.val, run.receiver.name, v.res.val, o.st))

execute_run(run, st, depth) ==
  Then(evaluate_expr(run.expr, st, depth), LAMBDA v :
    IF IsError(v) THEN v
    ELSE IF run.receiver = NoExpr THEN Out(v.st, Ok(Undef))
    ELSE IF run.receiver.t = "Variable" THEN execute_run_variable(run, v)
    ELSE IF run.receiver.t = "Attribute" THEN execute_run_attribute(run, v, depth)
    ELSE Out(v.st, Ok(Undef)))

\* Interpreter._execute_stmt: stmt_handlers[stmt.__class__]
execute_stmt(stmt, st, depth) ==
  Then(CASE stmt.t = "Con" -> execute_con(stmt, st, depth)
         [] stmt.t = "Run" -> execute_run(stmt, st, depth),
       LAMBDA o : Out(o.st, Wrap(o.res, stmt.line_start)))

(***************************************************************************)
(* The scanner.  A source string is a sequence of characters (strings of   *)
(* one character); a Scanner object is a record of its fields, of the      *)
(* errors it has reported to the error handler and of the host exception   *)
(* that left a method ("" for none).  Positions count from 0 as in the     *)
(* source: the character at position i is source[i + 1].                   *)
(***************************************************************************)
Token(token_type, line, lexeme, literal) ==
  [token_type |-> token_type, line |-> line, lexeme |-> lexeme, literal |-> literal]

Digits == {"0", "1", "2", "3", "4", "5", "6", "7", "8", "9"}

Letters ==
  {"a", "b", "c", "d", "e", "f", "g", "h", "i", "j", "k", "l", "m", "n", "o", "p", "q", "r",
   "s", "t", "u", "v", "w", "x", "y", "z", "A", "B", "C", "D", "E", "F", "G", "H", "I", "J",
   "K", "L", "M", "N", "O", "P", "Q", "R", "S", "T", "U", "V", "W", "X", "Y", "Z", "_"}

is_digit(char) == char \in Digits
is_alpha(char) == char \in Letters
is_alphanumeric(char) == is_digit(char) \/ is_alpha(char)

\* the character '\0'
NUL == "NUL"

Scanner(source) ==
  [source |-> source, tokens |-> <<>>, line |-> 1, col |-> 0, start |-> 0, current |-> 0,
   errs |-> <<>>, exc |-> "", state |-> "scanning"]

one_char_token_types ==
  [c \in {"(", ")", "+", "-", "*", "/", "%", "^", "<", ">", "!", "?", ";", "."} |->
     CASE c = "(" -> "LPAREN" [] c = ")" -> "RPAREN" [] c = "+" -> "PLUS"
       [] c = "-" -> "MINUS" [] c = "*" -> "STAR" [] c = "/" -> "SLASH"
       [] c = "%" -> "PERCENT" [] c = "^" -> "CARET" [] c = "<" -> "LESS"
       [] c = ">" -> "GREATER" [] c = "!" -> "BANG" [] c = "?" -> "QUESTION"
       [] c = ";" -> "SEMI" [] c = "." -> "DOT"]

two_char_token_types ==
  [cs \in {<<"/", "/">>, <<"=", "=">>, <<"!", "=">>, <<"<", "=">>, <<">", "=">>,
           <<"&", "&">>, <<"|", "|">>} |->
     CASE cs = <<"/", "/">> -> "DBLSLASH" [] cs = <<"=", "=">> -> "EQUAL"
       [] cs = <<"!", "=">> -> "BANG_EQUAL" [] cs = <<"<", "=">> -> "LESS_EQUAL"
       [] cs = <<">", "=">> -> "GREATER_EQUAL" [] cs = <<"&", "&">> -> "AND"
       [] cs = <<"|", "|">> -> "OR"]

reserved_keywords ==
  [w \in {<<"t", "r", "u", "e">>, <<"f", "a", "l", "s", "e">>, <<"u", "n", "d", "e", "f">>} |->
     CASE w = <<"t", "r", "u", "e">> -> "TRUE"
       [] w = <<"f", "a", "l", "s", "e">> -> "FALSE"
       [] w = <<"u", "n", "d", "e", "f">> -> "UNDEF"]

\* self.source[lo:hi]
Slice(source, lo, hi) == SubSeq(source, lo + 1, hi)

\* Scanner._is_at_end
scanner_is_at_end(sc) == sc.current >= Len(sc.source)

\* Scanner._advance without the character it returns: self.source[self.current]
\* raises IndexError at the end of the source
scanner_advance(sc) ==
  IF sc.exc # "" THEN sc
  ELSE IF sc.current >= Len(sc.source) THEN [sc EXCEPT !.exc = "IndexError"]
  ELSE [sc EXCEPT !.current = @ + 1, !.col = @ + 1]

\* Scanner._peek
scanner_peek(sc) == IF scanner_is_at_end(sc) THEN NUL ELSE sc.source[sc.current + 1]

\* Scanner._peek_next
scanner_peek_next(sc) ==
  IF sc.current + 1 >= Len(sc.source) THEN NUL ELSE sc.source[sc.current + 2]

\* Scanner._error
scanner_error(sc, message) ==
  [sc EXCEPT !.errs = Append(@, KiddouError(message, sc.line))]

\* Scanner._add_token
add_token(sc, token_type, literal) ==
  [sc EXCEPT !.tokens = Append(@, Token(token_type, sc.line,
                                         Slice(sc.source, sc.start, sc.current), literal))]

\* Scanner._newline
newline(sc) == [sc EXCEPT !.line = @ + 1, !.col = 0]

RECURSIVE advance_digits(_)
\* while is_digit(self._peek()): self._advance()
advance_digits(sc) ==
  IF is_digit(scanner_peek(sc)) THEN advance_digits(scanner_advance(sc)) ELSE sc

RECURSIVE advance_alphanumeric(_)
\* while is_alphanumeric(self._peek()): self._advance()
advance_alphanumeric(sc) ==
  IF is_alphanumeric(scanner_peek(sc)) THEN advance_alphanumeric(scanner_advance(sc)) ELSE sc

RECURSIVE advance_string(_)
\* the loop of _scan_string, to the closing quote or the end of the source
advance_string(sc) ==
  IF scanner_peek(sc) # "\"" /\ ~scanner_is_at_end(sc)
    THEN advance_string(scanner_advance(IF scanner_peek(sc) = "\n"
                                          THEN [sc EXCEPT !.line = @ + 1] ELSE sc))
  ELSE sc

RECURSIVE advance_comment(_)
\* the loop of _scan_comment, to the end of the line
advance_comment(sc) ==
  IF scanner_peek(sc) # "\n" /\ ~scanner_is_at_end(sc)
    THEN advance_comment(scanner_advance(sc))
  ELSE sc

RECURSIVE Pow10(_)
Pow10(k) == IF k = 0 THEN 1 ELSE 10 * Pow10(k - 1)

RECURSIVE DigitsValue(_)
\* the number the digits cs write
DigitsValue(cs) ==
  IF cs = <<>> THEN 0
  ELSE 10 * DigitsValue(SubSeq(cs, 1, Len(cs) - 1))
         + (CHOOSE d \in 0..9 :
              <<"0", "1", "2", "3", "4", "5", "6", "7", "8", "9">>[d + 1] = cs[Len(cs)])

\* the position from 1 of the first c in cs, 0 if there is none
IndexOf(cs, c) ==
  IF \E i \in DOMAIN cs : cs[i] = c THEN CHOOSE i \in DOMAIN cs : cs[i] = c /\ \A j \in 1..(i - 1) : cs[j] # c
  ELSE 0

\* literal.split('E')[0]
BeforeE(literal) ==
  IF IndexOf(literal, "E") = 0 THEN literal ELSE SubSeq(literal, 1, IndexOf(literal, "E") - 1)

\* the part of the literal after its E, without a sign
ExponentDigits(literal) ==
  IF IndexOf(literal, "E") = 0 THEN <<>>
  ELSE IF IndexOf(literal, "E") < Len(literal) /\ literal[IndexOf(literal, "E") + 1] \in {"+", "-"}
    THEN SubSeq(literal, IndexOf(literal, "E") + 2, Len(literal))
  ELSE SubSeq(literal, IndexOf(literal, "E") + 1, Len(literal))

\* the exponent the literal writes, 0 if it has none
ExponentOf(literal) ==
  IF IndexOf(literal, "-") # 0 THEN -DigitsValue(ExponentDigits(literal))
  ELSE DigitsValue(ExponentDigits(literal))

\* the digits of the mantissa, and the number of them after the point
MantissaDigits(literal) == SelectSeq(BeforeE(literal), LAMBDA c : c # ".")
MantissaScale(literal) ==
  IF IndexOf(BeforeE(literal), ".") = 0 THEN 0
  ELSE Len(BeforeE(literal)) - IndexOf(BeforeE(literal), ".")

\* int(literal) for a literal of digits
PyIntOfLiteral(literal) == PyInt(DigitsValue(literal))

\* float(literal) for digits [. digits] [E [+|-] digits]
PyFloatOfLiteral(literal) ==
  IF ExponentOf(literal) - MantissaScale(literal) >= 0
    THEN PyFloat(DigitsValue(MantissaDigits(literal))
                   * Pow10(ExponentOf(literal) - MantissaScale(literal)), 1)
  ELSE PyFloat(DigitsValue(MantissaDigits(literal)),
               Pow10(MantissaScale(literal) - ExponentOf(literal)))

\* _scan_number after the optional exponent: sc is the scanner after the E
\* and the sign, digits the scanner after the digits that follow
scan_exponent(sc, digits) ==
  IF digits.current = sc.current
    THEN add_token(scanner_error(digits, <<"invalid float",
                                           Slice(digits.source, digits.start, digits.current)>>),
                   "FLOAT_LIT",
                   PyFloatOfLiteral(BeforeE(Slice(digits.source, digits.start, digits.current))))
  ELSE add_token(digits, "FLOAT_LIT",
                 PyFloatOfLiteral(Slice(digits.source, digits.start, digits.current)))

\* _scan_number from the optional exponent on
scan_number_exponent(sc, is_float) ==
  IF scanner_peek(sc) = "E" THEN
    scan_exponent(IF scanner_peek(scanner_advance(sc)) \in {"+", "-"}
                    THEN scanner_advance(scanner_advance(sc)) ELSE scanner_advance(sc),
                  advance_digits(IF scanner_peek(scanner_advance(sc)) \in {"+", "-"}
                                   THEN scanner_advance(scanner_advance(sc))
                                   ELSE scanner_advance(sc)))
  ELSE IF is_float
    THEN add_token(sc, "FLOAT_LIT", PyFloatOfLiteral(Slice(sc.source, sc.start, sc.current)))
  ELSE add_token(sc, "INT_LIT", PyIntOfLiteral(Slice(sc.source, sc.start, sc.current)))

\* _scan_number from the optional decimal point on
scan_number_point(sc) ==
  IF scanner_peek(sc) = "." /\ is_digit(scanner_peek_next(sc))
    THEN scan_number_exponent(advance_digits(scanner_advance(sc)), TRUE)
  ELSE scan_number_exponent(sc, FALSE)

\* Scanner._scan_number
scan_number(sc) == scan_number_point(advance_digits(sc))

\* _scan_identifier after its loop
identifier_token(sc) ==
  IF Slice(sc.source, sc.start, sc.current) \in DOMAIN reserved_keywords
    THEN add_token(sc, reserved_keywords[Slice(sc.source, sc.start, sc.current)], PyNone)
  ELSE add_token(sc, "IDENTIFIER", PyNone)

\* Scanner._scan_identifier
scan_identifier(sc) == identifier_token(advance_alphanumeric(sc))

\* _scan_string after the consuming of the closing quote: nothing more is
\* done when _advance has raised
string_token(sc) ==
  IF sc.exc # "" THEN sc
  ELSE add_token(sc, "STRING_LIT", PyStr(Slice(sc.source, sc.start + 1, sc.current - 1)))

\* _scan_string after its loop
string_end(sc) ==
  string_token(scanner_advance(IF scanner_is_at_end(sc)
                                 THEN scanner_error(sc, <<"unterminated string", "">>)
                                 ELSE sc))

\* Scanner._scan_string
scan_string(sc) == string_end(advance_string(sc))

\* Scanner._scan_comment
scan_comment(sc) == advance_comment(sc)

\* one_char_tokens.get(char) and the call of the lambda found; sc is the
\* scanner after the character
scan_one_char(sc, char) ==
  CASE char = "\"" -> scan_string(sc)
    [] char = "#" -> scan_comment(sc)
    [] char \in DOMAIN one_char_token_types -> add_token(sc, one_char_token_types[char], PyNone)
    [] char \in {" ", "\t", "\r"} -> sc
    [] char = "\n" -> newline(sc)
    [] char = "&" -> scanner_error(sc, <<"use && for logical AND", "">>)
    [] char = "|" -> scanner_error(sc, <<"use || for logical OR", "">>)
    [] OTHER -> scanner_error(sc, <<"unknown character", char>>)

\* Scanner._scan_token with char the character _advance returned and sc the
\* scanner after it
scan_token_of(sc, char) ==
  IF is_digit(char) THEN scan_number(sc)
  ELSE IF is_alpha(char) THEN scan_identifier(sc)
  ELSE IF <<char, scanner_peek(sc)>> \in DOMAIN two_char_token_types
    THEN add_token(scanner_advance(sc), two_char_token_types[<<char, scanner_peek(sc)>>], PyNone)
  ELSE scan_one_char(sc, char)

\* one turn of the loop of scan_tokens: self.start = self.current, then
\* Scanner._scan_token
scan_token(sc) ==
  scan_token_of(scanner_advance([sc EXCEPT !.start = sc.current]), sc.source[sc.current + 1])

(***************************************************************************)
(* Lists.  The elements self.ls of a KiddouList are a sequence of values;  *)
(* get and set return the elements after the call and the result.          *)
(***************************************************************************)
\* -idx in the place of ~idx
PyNegate(idx) == -idx

\* ~idx on a host int
PyInvert(idx) == -idx - 1

\* max(a, b) on host ints
PyMax(a, b) == IF a >= b THEN a ELSE b

\* self.ls[idx] on a host list: a negative idx counts from the end
PyItem(elements, idx) ==
  IF idx >= 0 THEN elements[idx + 1] ELSE elements[Len(elements) + idx + 1]

\* self.ls[idx] = value
PySetItem(elements, idx, value) ==
  IF idx >= 0 THEN [elements EXCEPT ![idx + 1] = value]
  ELSE [elements EXCEPT ![Len(elements) + idx + 1] = value]

\* KiddouList.get
list_get(elements, index) ==
  IF index.k # "Int"
    THEN [ls |-> elements, res |-> Raise("Type", "List index should be Int")]
  ELSE IF PyMax(PyInvert(index.val.n), index.val.n) < Len(elements)
    THEN [ls |-> elements, res |-> Ok(PyItem(elements, index.val.n))]
  ELSE [ls |-> elements, res |-> Ok(Undef)]

\* KiddouList.set
list_set(elements, index, value) ==
  IF index.k # "Int"
    THEN [ls |-> elements, res |-> Raise("Type", "List index should be Int")]
  ELSE IF PyMax(PyInvert(index.val.n), index.val.n) < Len(elements)
    THEN [ls |-> PySetItem(elements, index.val.n, value), res |-> Ok(Undef)]
  ELSE [ls |-> elements, res |-> Raise("IndexOutOfBounds", "max(~idx, idx)>=len(self.ls)")]

(***************************************************************************)
(* The parser.  A Parser object is a record of the token list, the index   *)
(* of the current token (from 0) and the errors it has reported to the     *)
(* error handler.  A parse operator returns the parser after it, the node  *)
(* it built and the exception it raised: "" for none, "ParseError", or the *)
(* name of a host exception.                                               *)
(***************************************************************************)
Parser(tokens) == [tokens |-> tokens, current |-> 0, errs |-> <<>>]

Parsed(p, node) == [p |-> p, node |-> node, exc |-> ""]
ParseRaise(p, exc) == [p |-> p, node |-> NoExpr, exc |-> exc]

\* the most arguments a call may have
MaxArguments == 255

assignment_token_types == {"ASSIGN", "RE_ASSIGN"}
statement_boundary_token_types == {"DEF", "TYP", "CON", "ARG", "RUN", "USE", "ARROW"}
constructor_boundary_token_types == {"RBRACE", "RBRACKET"}
literal_token_types == {"UNDEF", "TRUE", "FALSE", "INT_LIT", "FLOAT_LIT", "STRING_LIT"}

token_type_to_binary_op(token_type) ==
  CASE token_type = "SEMI" -> "PIECE"
    [] token_type = "QUESTION" -> "DOMAIN"
    [] token_type = "OR" -> "OR"
    [] token_type = "AND" -> "AND"
    [] token_type = "EQUAL" -> "EQUAL"
    [] token_type = "BANG_EQUAL" -> "NOT_EQUAL"
    [] token_type = "LESS" -> "LESS"
    [] token_type = "LESS_EQUAL" -> "LESS_EQUAL"
    [] token_type = "GREATER" -> "GREATER"
    [] token_type = "GREATER_EQUAL" -> "GREATER_EQUAL"
    [] token_type = "PLUS" -> "ADD"
    [] token_type = "MINUS" -> "SUBTRACT"
    [] token_type = "STAR" -> "MULTIPLY"
    [] token_type = "SLASH" -> "DIVIDE"
    [] token_type = "DBLSLASH" -> "IDIVIDE"
    [] token_type = "PERCENT" -> "MODULUS"
    [] token_type = "CARET" -> "POWER"

token_type_unary_op(token_type) ==
  CASE token_type = "MINUS" -> "NEGATE"
    [] token_type = "BANG" -> "NOT"

\* the token types _left_assoc_binary is called with by _parse_expression
\* (1), _parse_piece, _parse_logical_or, _parse_logical_and,
\* _parse_equality, _parse_comparison, _parse_sum and _parse_term (8)
level_token_types(level) ==
  CASE level = 1 -> {"SEMI"}
    [] level = 2 -> {"QUESTION"}
    [] level = 3 -> {"OR"}
    [] level = 4 -> {"AND"}
    [] level = 5 -> {"EQUAL", "BANG_EQUAL"}
    [] level = 6 -> {"LESS", "LESS_EQUAL", "GREATER", "GREATER_EQUAL"}
    [] level = 7 -> {"PLUS", "MINUS"}
    [] level = 8 -> {"STAR", "SLASH", "DBLSLASH", "PERCENT"}

is_valid_receiver(expr) == expr.t \in {"Variable", "Index", "Attribute"}

peek(p) == p.tokens[p.current + 1]

\* self.tokens[self.current - 1]: index -1 is the last token
previous(p) == p.tokens[IF p.current = 0 THEN Len(p.tokens) ELSE p.current]

is_at_end(p) == peek(p).token_type = "EOF"

check_type(p, token_type) == ~is_at_end(p) /\ peek(p).token_type = token_type

\* the parser after _advance; the token it returns is previous of it
advance(p) == IF ~is_at_end(p) THEN [p EXCEPT !.current = @ + 1] ELSE p

\* whether _match(*token_types) returns True; the parser is then advance(p)
match(p, token_types) == \E token_type \in token_types : check_type(p, token_type)

\* the parser after _error(token, message), which returns a ParseError
\* that the caller may raise
error(p, token, message) ==
  [p EXCEPT !.errs = Append(@, KiddouError(<<message, "">>, token.line))]

\* _consume: the node is the token consumed
consume(p, token_type, message) ==
  IF check_type(p, token_type) THEN Parsed(advance(p), peek(p))
  ELSE ParseRaise(error(p, peek(p), message), "ParseError")

RECURSIVE left_assoc_binary(_, _)
RECURSIVE left_assoc_loop(_, _, _)
RECURSIVE parse_factor(_)
RECURSIVE parse_call_loop(_, _)
RECURSIVE parse_arguments(_)
RECURSIVE parse_primary(_)
RECURSIVE parse_constructor(_, _)
RECURSIVE parse_sequence(_, _, _, _)
RECURSIVE parse_block_stmts(_, _)
RECURSIVE parse_statement(_)
RECURSIVE synchronize(_)

\* element() of the call of _left_assoc_binary for this level
element(p, level) == IF level = 8 THEN parse_factor(p) ELSE left_assoc_binary(p, level + 1)

\* while self._match(*token_types): ...
left_assoc_loop(p, level, expr) ==
  IF match(p, level_token_types(level)) THEN
    Then(element(advance(p), level), LAMBDA right :
      IF right.exc # "" THEN right
      ELSE left_assoc_loop(right.p, level,
             Binary(expr, token_type_to_binary_op(peek(p).token_type), right.node,
                    peek(p).line)))
  ELSE Parsed(p, expr)

left_assoc_binary(p, level) ==
  Then(element(p, level), LAMBDA e :
    IF e.exc # "" THEN e ELSE left_assoc_loop(e.p, level, e.node))

parse_expression(p) == left_assoc_binary(p, 1)

\* one round of the loop of _parse_arguments, whose node is the list
\* result; a loop that is over stays as it is
parse_arguments_round(loop) ==
  IF loop.exc # "" \/ ~match(loop.p, {"COMMA"}) THEN loop
  ELSE
    Then(IF Len(loop.node) > MaxArguments
           THEN error(advance(loop.p), peek(advance(loop.p)),
                      "Can't pass more than 255 arguments.")
           ELSE advance(loop.p), LAMBDA q :
    Then(parse_expression(q), LAMBDA e :
      IF e.exc # "" THEN e ELSE Parsed(e.p, Append(loop.node, e.node))))

RECURSIVE parse_arguments_rounds(_, _)
\* the next k rounds of the loop, as the first half of them and then the
\* second half
parse_arguments_rounds(loop, k) ==
  IF k = 0 THEN loop
  ELSE IF k = 1 THEN parse_arguments_round(loop)
  ELSE Then(parse_arguments_rounds(loop, k \div 2), LAMBDA half :
         parse_arguments_rounds(half, k - k \div 2))

\* every round of the loop consumes a token, so the loop is over within as
\* many rounds as there are tokens
parse_arguments(p) ==
  Then(parse_expression(p), LAMBDA e :
    IF e.exc # "" THEN e
    ELSE parse_arguments_rounds(Parsed(e.p, <<e.node>>), Len(p.tokens)))

\* the loop of _parse_call over the postfixes (args), [index] and .name
parse_call_loop(p, expr) ==
  IF match(p, {"LPAREN"}) THEN
    Then(IF ~check_type(advance(p), "RPAREN") THEN parse_arguments(advance(p))
         ELSE Parsed(advance(p), <<>>), LAMBDA arguments :
      IF arguments.exc # "" THEN arguments
      ELSE Then(consume(arguments.p, "RPAREN", "Expected closing ')' after arguments."),
                LAMBDA rparen :
             IF rparen.exc # "" THEN rparen
             ELSE parse_call_loop(rparen.p, Call(expr, arguments.node, rparen.node.line))))
  ELSE IF match(p, {"LBRACKET"}) THEN
    Then(parse_expression(advance(p)), LAMBDA index :
      IF index.exc # "" THEN index
      ELSE Then(consume(index.p, "RBRACKET", "Expected closing ']' after index."),
                LAMBDA rbracket :
             IF rbracket.exc # "" THEN rbracket
             ELSE parse_call_loop(rbracket.p, Index(expr, index.node, rbracket.node.line))))
  ELSE IF match(p, {"DOT"}) THEN
    Then(consume(advance(p), "IDENTIFIER", "Expected attribute name after '.'."),
         LAMBDA name :
      IF name.exc # "" THEN name
      ELSE parse_call_loop(name.p, Attribute(expr, name.node.lexeme, name.node.line)))
  ELSE Parsed(p, expr)

parse_call(p) ==
  Then(parse_primary(p), LAMBDA e :
    IF e.exc # "" THEN e ELSE parse_call_loop(e.p, e.node))

parse_factor(p) ==
  IF match(p, {"BANG", "MINUS"}) THEN
    Then(parse_factor(advance(p)), LAMBDA right :
      IF right.exc # "" THEN right
      ELSE Parsed(right.p, Unary(token_type_unary_op(peek(p).token_type), right.node,
                                 peek(p).line)))
  ELSE
    Then(parse_call(p), LAMBDA e :
      IF e.exc # "" \/ ~match(e.p, {"CARET"}) THEN e
      ELSE Then(parse_factor(advance(e.p)), LAMBDA right :
             IF right.exc # "" THEN right
             ELSE Parsed(right.p, Binary(e.node, token_type_to_binary_op("CARET"),
                                         right.node, peek(e.p).line))))

\* what _parse_primary does after the opening '{' (is_eager false) or '['
\* (is_eager true) was matched
parse_group(p, is_eager) ==
  Then(parse_constructor(p, is_eager), LAMBDA constructor :
    IF constructor.exc # "" THEN constructor
    ELSE IF match(constructor.p, {IF is_eager THEN "RBRACE" ELSE "RBRACKET"}) THEN
      ParseRaise(error(advance(constructor.p), peek(constructor.p),
                       IF is_eager THEN "Closing '}' does not match opening '['."
                       ELSE "Closing ']' does not match opening '{'."), "ParseError")
    ELSE Then(consume(constructor.p, IF is_eager THEN "RBRACKET" ELSE "RBRACE",
                      IF is_eager THEN "Expected closing ']'." ELSE "Expected closing '}'."),
              LAMBDA closing :
           IF closing.exc # "" THEN closing ELSE Parsed(closing.p, constructor.node)))

parse_primary(p) ==
  IF match(p, literal_token_types) THEN
    Parsed(advance(p), Literal(peek(p).literal, peek(p).line))
  ELSE IF match(p, {"IDENTIFIER"}) THEN
    Parsed(advance(p), Variable(peek(p).lexeme, peek(p).line))
  ELSE IF match(p, {"LPAREN"}) THEN
    Then(parse_expression(advance(p)), LAMBDA e :
      IF e.exc # "" THEN e
      ELSE Then(consume(e.p, "RPAREN", "Expected closing ')'."), LAMBDA rparen :
             IF rparen.exc # "" THEN rparen ELSE Parsed(rparen.p, e.node)))
  ELSE IF match(p, {"LBRACE"}) THEN parse_group(advance(p), FALSE)
  ELSE IF match(p, {"LBRACKET"}) THEN parse_group(advance(p), TRUE)
  ELSE ParseRaise(error(p, peek(p), "Expected expression."), "ParseError")

parse_sequence(p, is_eager, line, elements) ==
  IF match(p, {"COMMA"}) THEN
    Then(parse_expression(advance(p)), LAMBDA e :
      IF e.exc # "" THEN e
      ELSE parse_sequence(e.p, is_eager, line, Append(elements, e.node)))
  ELSE Parsed(p, Sequence(elements, is_eager, line))

\* the statement loop of _parse_block; the node is the list of statements
parse_block_stmts(p, stmts) ==
  IF ~(check_type(p, "RBRACE") \/ check_type(p, "RBRACKET") \/ check_type(p, "ARROW"))
     /\ ~is_at_end(p)
  THEN Then(parse_statement(p), LAMBDA stmt :
         IF stmt.exc # "" THEN stmt
         ELSE parse_block_stmts(stmt.p, IF stmt.node # NoExpr THEN Append(stmts, stmt.node)
                                        ELSE stmts))
  ELSE Parsed(p, stmts)

parse_block(p, is_eager, line) ==
  Then(parse_block_stmts(p, <<>>), LAMBDA body :
    IF body.exc # "" THEN body
    ELSE IF is_at_end(body.p) \/ check_type(body.p, "RBRACE") \/ check_type(body.p, "RBRACKET")
    THEN Parsed(body.p, Block(body.node, NoExpr, is_eager, line))
    ELSE Then(IF match(body.p, {"ARROW"}) THEN advance(body.p) ELSE body.p, LAMBDA q :
         Then(parse_expression(q), LAMBDA e :
           IF e.exc # "" THEN e
           ELSE Parsed(IF ~match(body.p, {"ARROW"}) /\ body.node # <<>>
                         THEN error(e.p, peek(q), "Expected '->' before expression.")
                         ELSE e.p,
                       Block(body.node, e.node, is_eager, line)))))

parse_constructor(p, is_eager) ==
  IF peek(p).token_type \in constructor_boundary_token_types THEN
    Parsed(error(p, previous(p), "Empty constructor not allowed."),
           Block(<<>>, NoExpr, is_eager, previous(p).line))
  ELSE IF peek(p).token_type \in statement_boundary_token_types THEN
    parse_block(p, is_eager, previous(p).line)
  ELSE
    Then(parse_expression(p), LAMBDA e :
      IF e.exc # "" THEN e ELSE parse_sequence(e.p, is_eager, previous(p).line, <<e.node>>))

\* p is the parser after the header keyword
parse_con(p) ==
  Then(consume(p, "IDENTIFIER", "Expected identifier."), LAMBDA identifier :
    IF identifier.exc # "" THEN identifier
    ELSE IF peek(identifier.p).token_type \notin assignment_token_types THEN
      ParseRaise(error(identifier.p, peek(identifier.p), "Expected assignment."), "ParseError")
    ELSE
      Then(IF peek(identifier.p).token_type # "ASSIGN"
             THEN error(advance(identifier.p), peek(identifier.p), "Reassignment not allowed.")
             ELSE advance(identifier.p), LAMBDA q :
      Then(parse_expression(q), LAMBDA e :
        IF e.exc # "" THEN e
        ELSE Parsed(e.p, Con(identifier.node.lexeme, e.node, previous(p).line)))))

\* p is the parser after the header keyword
parse_run(p) ==
  Then(parse_expression(p), LAMBDA lhs :
    IF lhs.exc # "" THEN lhs
    ELSE IF ~match(lhs.p, assignment_token_types) THEN
      Parsed(lhs.p, Run(NoExpr, lhs.node, FALSE, previous(p).line))
    ELSE IF is_valid_receiver(lhs.node) THEN
      Then(parse_expression(advance(lhs.p)), LAMBDA e :
        IF e.exc # "" THEN e
        ELSE Parsed(e.p, Run(lhs.node, e.node, peek(lhs.p).token_type # "ASSIGN",
                             previous(p).line)))
    ELSE
      Then(parse_expression(error(advance(lhs.p), peek(lhs.p), "Invalid assignment target.")),
           LAMBDA e :
        IF e.exc # "" THEN e
        ELSE Parsed(e.p, Run(NoExpr, lhs.node, FALSE, previous(p).line))))

\* the try block of one round of the loop of _synchronize
synchronize_step(p) ==
  IF match(p, {"LBRACE"}) \/ match(p, {"LBRACKET"}) THEN
    Then(parse_constructor(advance(p), match(p, {"LBRACKET"})), LAMBDA constructor :
      IF constructor.exc # "" THEN constructor
      ELSE IF match(constructor.p, {IF match(p, {"LBRACKET"}) THEN "RBRACE" ELSE "RBRACKET"})
      \* self._error is called with one argument
      THEN ParseRaise(advance(constructor.p), "TypeError")
      ELSE consume(constructor.p, IF match(p, {"LBRACKET"}) THEN "RBRACKET" ELSE "RBRACE",
                   IF match(p, {"LBRACKET"}) THEN "Expected closing ']'."
                   ELSE "Expected closing '}'."))
  ELSE Parsed(advance(p), NoExpr)

synchronize(p) ==
  IF is_at_end(p)
     \/ peek(p).token_type \in statement_boundary_token_types
     \/ peek(p).token_type \in constructor_boundary_token_types
  THEN Parsed(p, NoExpr)
  ELSE Then(synchronize_step(p), LAMBDA step :
         IF step.exc \in {"", "ParseError"} THEN synchronize(step.p) ELSE step)

parse_statement(p) ==
  Then(IF previous(advance(p)).token_type = "CON" THEN parse_con(advance(p))
       ELSE IF previous(advance(p)).token_type = "RUN" THEN parse_run(advance(p))
       ELSE ParseRaise(error(advance(p), previous(advance(p)),
                             "Expected a statement header keyword."), "ParseError"),
       LAMBDA stmt :
    IF stmt.exc = "ParseError" THEN
      Then(synchronize(stmt.p), LAMBDA s : IF s.exc # "" THEN s ELSE Parsed(s.p, NoExpr))
    ELSE stmt)

RECURSIVE parse_statements(_, _)
\* the loop of Parser.parse; the node is the list of statements
parse_statements(p, statements) ==
  IF is_at_end(p) THEN Parsed(p, statements)
  ELSE Then(parse_statement(p), LAMBDA stmt :
         IF stmt.exc # "" THEN stmt
         ELSE parse_statements(stmt.p, IF stmt.node # NoExpr THEN Append(statements, stmt.node)
                                       ELSE statements))

\* Parser(tokens, error_handler).parse()
parse_tokens(tokens) == parse_statements(Parser(tokens), <<>>)

(***************************************************************************)
(* Source texts.  A statement template is a statement written at a given   *)
(* line; a source text is a list of templates, one below the other.        *)
(***************************************************************************)
V(nm, ln) == Variable(nm, ln)
N(i, ln) == Literal(IntV(i), ln)
Lazy(ss, e, ln) == Block(ss, e, FALSE, ln)
Assign(nm, e, ln) == Run(Variable(nm, ln), e, FALSE, ln)
Reassign(nm, e, ln) == Run(Variable(nm, ln), e, TRUE, ln)
SetAttr(o, nm, e, ln) == Run(Attribute(o, nm, ln), e, TRUE, ln)

\* the statement id written at line ln, with nl = 1 when its lines end in
\* newlines and nl = 0 when it is written on one line
Template(id, ln, nl) ==
  CASE id = "con x = 1" -> Con("x", N(1, ln), ln)
    [] id = "run x = 2" -> Assign("x", N(2, ln), ln)
    [] id = "run x := x + 1" -> Reassign("x", Binary(V("x", ln), "ADD", N(1, ln), ln), ln)
    [] id = "run y = x // 0" -> Assign("y", Binary(V("x", ln), "IDIVIDE", N(0, ln), ln), ln)
    [] id = "run this.x := 5" -> SetAttr(V("this", ln), "x", N(5, ln), ln)
    [] id = "run this.q := 5" -> SetAttr(V("this", ln), "q", N(5, ln), ln)
    [] id = "run k = 0" -> Assign("k", N(0, ln), ln)
    [] id = "con f = { run k = k + 1 -> k }" ->
         Con("f", Lazy(<<Assign("k", Binary(V("k", ln), "ADD", N(1, ln), ln), ln)>>,
                       V("k", ln), ln), ln)
    [] id = "run y = f()" -> Assign("y", Call(V("f", ln), <<>>, ln), ln)
    [] id = "run y = f.k" -> Assign("y", Attribute(V("f", ln), "k", ln), ln)
    [] id = "con f = { con a = 1 run k = a run k := k + 1 -> k }" ->
         Con("f", Lazy(<<Con("a", N(1, ln), ln),
                         Assign("k", V("a", ln + 1 * nl), ln + 1 * nl),
                         Reassign("k", Binary(V("k", ln + 2 * nl), "ADD", N(1, ln + 2 * nl), ln + 2 * nl),
                                  ln + 2 * nl)>>,
                       V("k", ln + 3 * nl), ln), ln)
    [] id = "run f.k := 5" -> SetAttr(V("f", ln), "k", N(5, ln), ln)
    [] id = "run f.a := 7" -> SetAttr(V("f", ln), "a", N(7, ln), ln)
    [] id = "run f.q := 5" -> SetAttr(V("f", ln), "q", N(5, ln), ln)
    [] id = "con f = { -> this }" -> Con("f", Lazy(<<>>, V("this", ln), ln), ln)
    [] id = "con g = { run this := 1 }" ->
         Con("g", Lazy(<<Reassign("this", N(1, ln), ln)>>, NoExpr, ln), ln)
    [] id = "run g()" -> Run(NoExpr, Call(V("g", ln), <<>>, ln), FALSE, ln)
    [] id = "run n = 0" -> Assign("n", N(0, ln), ln)
    [] id = "con f = { run n := n + 1 -> n }" ->
         Con("f", Lazy(<<Reassign("n", Binary(V("n", ln), "ADD", N(1, ln), ln), ln)>>,
                       V("n", ln), ln), ln)
    [] id = "run y = f() + f()" ->
         Assign("y", Binary(Call(V("f", ln), <<>>, ln), "ADD",
                            Call(V("f", ln), <<>>, ln), ln), ln)
    [] id = "run y = f.n" -> Assign("y", Attribute(V("f", ln), "n", ln), ln)
    [] id = "con f = { run n = 0 con p = { run n := n + 1 -> n } con q = { -> n } -> p() + q() + n }" ->
         Con("f", Lazy(<<Assign("n", N(0, ln), ln),
                         Con("p", Lazy(<<Reassign("n", Binary(V("n", ln + 1 * nl), "ADD",
                                                              N(1, ln + 1 * nl), ln + 1 * nl),
                                                  ln + 1 * nl)>>,
                                       V("n", ln + 1 * nl), ln + 1 * nl), ln + 1 * nl),
                         Con("q", Lazy(<<>>, V("n", ln + 2 * nl), ln + 2 * nl), ln + 2 * nl)>>,
                       Binary(Binary(Call(V("p", ln + 3 * nl), <<>>, ln + 3 * nl), "ADD",
                                     Call(V("q", ln + 3 * nl), <<>>, ln + 3 * nl), ln + 3 * nl),
                              "ADD", V("n", ln + 3 * nl), ln + 3 * nl), ln), ln)
    [] id = "con f = { run k = n run n = 5 con g = { run n := 7 } run g() -> n }" ->
         Con("f", Lazy(<<Assign("k", V("n", ln), ln),
                         Assign("n", N(5, ln + 1 * nl), ln + 1 * nl),
                         Con("g", Lazy(<<Reassign("n", N(7, ln + 2 * nl), ln + 2 * nl)>>, NoExpr,
                                       ln + 2 * nl), ln + 2 * nl),
                         Run(NoExpr, Call(V("g", ln + 3 * nl), <<>>, ln + 3 * nl), FALSE, ln + 3 * nl)>>,
                       V("n", ln + 4 * nl), ln), ln)
    [] id = "run y = n" -> Assign("y", V("n", ln), ln)
    [] id = "run y = z" -> Assign("y", V("z", ln), ln)
    [] id = "run z := 1" -> Reassign("z", N(1, ln), ln)
    [] id = "run b = false" -> Assign("b", Literal(Bool(FALSE), ln), ln)
    [] id = "run b = 0" -> Assign("b", N(0, ln), ln)
    [] id = "run b = 1" -> Assign("b", N(1, ln), ln)
    [] id = "con f = { con g = { -> 1 // b } -> g() }" ->
         Con("f", Lazy(<<Con("g", Lazy(<<>>, Binary(N(1, ln + 1 * nl), "IDIVIDE",
                                                    V("b", ln + 1 * nl), ln + 1 * nl),
                                       ln + 1 * nl), ln + 1 * nl)>>,
                       Call(V("g", ln + 2 * nl), <<>>, ln + 2 * nl), ln), ln)
    [] id = "run y = f() ? b" ->
         Assign("y", Binary(Call(V("f", ln), <<>>, ln), "DOMAIN", V("b", ln), ln), ln)
    [] id = "con h = { run n = 0 con f = { run n := 1 con g = { -> n } -> g() } -> f() }" ->
         Con("h", Lazy(<<Assign("n", N(0, ln), ln),
                         Con("f", Lazy(<<Reassign("n", N(1, ln), ln),
                                         Con("g", Lazy(<<>>, V("n", ln), ln), ln)>>,
                                       Call(V("g", ln), <<>>, ln), ln), ln)>>,
                       Call(V("f", ln), <<>>, ln), ln), ln)
    [] id = "con h = { run n = 0 con f = { -> n } con n = 5 -> f() }" ->
         Con("h", Lazy(<<Assign("n", N(0, ln), ln),
                         Con("f", Lazy(<<>>, V("n", ln), ln), ln),
                         Con("n", N(5, ln), ln)>>,
                       Call(V("f", ln), <<>>, ln), ln), ln)
    [] id = "con h = { run n = 0 con f = { -> n } run n := 7 con a = f() run n = 5 -> a + f() }" ->
         Con("h", Lazy(<<Assign("n", N(0, ln), ln),
                         Con("f", Lazy(<<>>, V("n", ln), ln), ln),
                         Reassign("n", N(7, ln), ln),
                         Con("a", Call(V("f", ln), <<>>, ln), ln),
                         Assign("n", N(5, ln), ln)>>,
                       Binary(V("a", ln), "ADD", Call(V("f", ln), <<>>, ln), ln), ln), ln)
    [] id = "run y = h()" -> Assign("y", Call(V("h", ln), <<>>, ln), ln)
    [] id = "con f = { con g = { -> z + x } }" ->
         Con("f", Lazy(<<Con("g", Lazy(<<>>, Binary(V("z", ln + 2 * nl), "ADD", V("x", ln + 2 * nl),
                                                    ln + 2 * nl), ln + 1 * nl), ln + 1 * nl)>>,
                       NoExpr, ln), ln)

\* the number of source lines a template takes when written with newlines
Height(id) ==
  CASE id = "con f = { con a = 1 run k = a run k := k + 1 -> k }" -> 4
    [] id = "con f = { run k = n run n = 5 con g = { run n := 7 } run g() -> n }" -> 5
    [] id = "con f = { con g = { -> z + x } }" -> 3
    [] id = "con f = { con g = { -> 1 // b } -> g() }" -> 3
    [] id = "con f = { run n = 0 con p = { run n := n + 1 -> n } con q = { -> n } -> p() + q() + n }" -> 4
    [] OTHER -> 1

\* The pools of templates the source texts of one session are written from
Pools ==
  << {"con x = 1", "run x = 2", "run x := x + 1", "run y = x // 0"},
     {"con x = 1", "run x = 2", "run this.x := 5", "run this.q := 5"},
     {"run k = 0", "con f = { run k = k + 1 -> k }", "run y = f() + f()", "run y = f.k"},
     {"con f = { con a = 1 run k = a run k := k + 1 -> k }", "run y = f()",
      "run f.k := 5", "run y = f.k"},
     {"con f = { con a = 1 run k = a run k := k + 1 -> k }", "run y = f()",
      "run f.a := 7", "run f.q := 5"},
     {"con f = { -> this }", "run y = f()", "con g = { run this := 1 }", "run g()"},
     {"run n = 0", "con f = { run n := n + 1 -> n }", "run y = f()", "run y = n"},
     {"con f = { run n = 0 con p = { run n := n + 1 -> n } con q = { -> n } -> p() + q() + n }",
      "run y = f()", "run y = f.n", "run n = 0"},
     {"run n = 0", "con f = { run k = n run n = 5 con g = { run n := 7 } run g() -> n }",
      "run y = f()", "run y = n"},
     {"con x = 1", "run y = z", "run z := 1", "con f = { con g = { -> z + x } }"},
     {"run b = false", "run b = 0", "run b = 1", "con f = { con g = { -> 1 // b } -> g() }",
      "run y = f() ? b"},
     {"con h = { run n = 0 con f = { run n := 1 con g = { -> n } -> g() } -> f() }",
      "con h = { run n = 0 con f = { -> n } con n = 5 -> f() }",
      "con h = { run n = 0 con f = { -> n } run n := 7 con a = f() run n = 5 -> a + f() }",
      "run y = h()"} >>

RECURSIVE Seqs(_, _)
\* the sequences over S of length at most n
Seqs(S, n) ==
  IF n = 0 THEN {<<>>}
  ELSE LET shorter == Seqs(S, n - 1)
       IN  shorter \cup {Append(q, x) : q \in shorter, x \in S}

RECURSIVE Statements(_, _, _, _)
\* the statements of the text written from the templates ids, from
\* template i on, the first of them at line ln
Statements(ids, i, ln, nl) ==
  IF i > Len(ids) THEN <<>>
  ELSE <<Template(ids[i], ln, nl)>>
       \o Statements(ids, i + 1, ln + nl * Height(ids[i]), nl)

\* A source text: the templates it is written from and the kind of static
\* error it holds ("lex": a character the scanner rejects on its first line,
\* "syn": a first statement the parser rejects, "": neither), and whether
\* it is written on several lines (nl = 1) or on one (nl = 0)
\* A text with a static error is followed up to its first statement
MaxBad == 1

Sources(p) ==
  [bad : {""}, ids : Seqs(Pools[p], MaxStmts), nl : {0, 1}]
    \cup [bad : {"lex", "syn"}, ids : Seqs(Pools[p], MaxBad), nl : {0, 1}]

\* What Scanner.scan_tokens reports for a source text
scan_errors(src) ==
  IF src.bad = "lex" THEN <<KiddouError(<<"unknown character", "">>, 1)>> ELSE <<>>

\* What Parser.parse reports for the tokens of a source text, and the
\* statements it returns
parse_errors(src) ==
  IF src.bad = "syn" THEN <<KiddouError(<<"Expected a statement header keyword.", "">>, 1)>>
  ELSE <<>>

parse(src) == Statements(src.ids, 1, IF src.bad = "syn" THEN 1 + src.nl ELSE 1, src.nl)

(***************************************************************************)
(* The state of the program.                                               *)
(***************************************************************************)
VARIABLES
  refs, envs, blocks, env,  \* the objects of the interpreter (see above)
  trace,                    \* what the statement of source last executed did
  error_list,               \* ErrorHandler.error_list
  had_runtime_error,        \* ErrorHandler.had_runtime_error
  stderr,                   \* the errors printed since the last text was read
  pc,                       \* the position of the driver
  mode,                     \* "file" (run_file) or "repl" (run_prompt)
  exit_code,                \* the exit code of the process, -1 while it runs
  source,                   \* the source text being run
  stmts,                    \* the statements parse returned, annotated by check
  ip,                       \* the index in stmts of the next statement
  inputs,                   \* the number of source texts read so far
  read,                     \* the number of statements in them
  executed,                 \* the number of statements of source executed
  pool,                     \* the pool the texts of this session are from
  operands,                 \* the operand values an operator is applied to
  applied,                  \* the operator applied to them and its result
  tokens,                   \* the tokens the scanner returned for a token text
  ls,                       \* KiddouList.ls, the elements of a List
  accessed,                 \* the access made to the List and its result
  scanner                   \* the Scanner object of a source string

vars == <<refs, envs, blocks, env, trace, error_list, had_runtime_error, stderr, pc, mode,
          exit_code, source, stmts, ip, inputs, read, executed, pool, operands, applied,
          tokens,
          ls, accessed,
          scanner>>

Store == [refs |-> refs, envs |-> envs, blocks |-> blocks, env |-> env, trace |-> trace]

EmptyStore ==
  [refs |-> <<>>, envs |-> <<Environment(EmptyDict)>>, blocks |-> <<>>, env |-> Globals,
   trace |-> <<>>]

\* the pervasives: inf, nan and print
Pervasives == <<[name |-> "inf", value |-> Float(PyInf(1))],
                [name |-> "nan", value |-> Float(PyNan)],
                [name |-> "print", value |-> LibraryFunction("print")]>>

\* Interpreter.__init__: the globals hold the pervasives and this, the module
RECURSIVE BindAll(_, _, _)
\* for name, value in pervasives.items(): self.globals.bind(name, value)
BindAll(st, bindings, i) ==
  IF i > Len(bindings) THEN st
  ELSE BindAll(bind(st, Globals, bindings[i].name, bindings[i].value, FALSE), bindings, i + 1)

InterpreterInit ==
  [bind(BindAll(EmptyStore, Pervasives, 1), Globals, "this", KiddouModule, FALSE)
     EXCEPT !.trace = <<>>]

NoSource == [bad |-> "", ids |-> <<>>, nl |-> 0]
NoOperands == [left |-> Undef, right |-> Undef]
NotApplied == [operator |-> "", res |-> Ok(Undef)]
NoScanner ==
  [source |-> <<>>, tokens |-> <<>>, line |-> 1, col |-> 0, start |-> 0, current |-> 0,
   errs |-> <<>>, exc |-> "", state |-> ""]
NotAccessed == [op |-> "", index |-> Undef, value |-> Undef, res |-> Ok(Undef), before |-> <<>>]

\* the state after Kiddou.__init__
KiddouInit ==
  /\ refs = InterpreterInit.refs
  /\ envs = InterpreterInit.envs
  /\ blocks = InterpreterInit.blocks
  /\ env = InterpreterInit.env
  /\ trace = <<>>
  /\ error_list = <<>>
  /\ had_runtime_error = FALSE
  /\ stderr = <<>>
  /\ pc = "main"
  /\ mode = ""
  /\ exit_code = -1
  /\ source = NoSource
  /\ stmts = <<>>
  /\ ip = 1
  /\ inputs = 0
  /\ read = 0
  /\ executed = 0

Init ==
  /\ KiddouInit
  /\ pool \in 1..Len(Pools)
  /\ operands = NoOperands
  /\ applied = NotApplied
  /\ tokens = <<>>
  /\ ls = <<>>
  /\ accessed = NotAccessed
  /\ scanner = NoScanner

\* ErrorHandler.has_error
has_error(errors) == errors # <<>>

Printed(kind, errors) ==
  [i \in 1..Len(errors) |-> [src |-> inputs, kind |-> kind, error |-> errors[i]]]

interpreter_vars == <<refs, envs, blocks, env, trace>>
handler_vars == <<error_list, had_runtime_error, stderr>>
operator_vars == <<operands, applied>>
list_vars == <<ls, accessed>>
scanner_vars == <<scanner>>

\* main: more than one argument prints the usage and exits with 64
Usage ==
  /\ pc = "main"
  /\ pc' = "exit"
  /\ exit_code' = 64
  /\ UNCHANGED <<interpreter_vars, handler_vars, mode, source, stmts, ip, inputs, read, executed,
                 pool, operator_vars, tokens, list_vars, scanner_vars>>

\* main: one argument runs the file
StartFile ==
  /\ pc = "main"
  /\ pc' = "input"
  /\ mode' = "file"
  /\ UNCHANGED <<interpreter_vars, handler_vars, exit_code, source, stmts, ip, inputs, read,
                 executed, pool, operator_vars, tokens, list_vars, scanner_vars>>

\* main: no argument runs the prompt
StartPrompt ==
  /\ pc = "main"
  /\ pc' = "input"
  /\ mode' = "repl"
  /\ UNCHANGED <<interpreter_vars, handler_vars, exit_code, source, stmts, ip, inputs, read,
                 executed, pool, operator_vars, tokens, list_vars, scanner_vars>>

\* run_file reads the file, run_prompt reads a line: the text src
Read(src) ==
  /\ pc = "input"
  /\ mode = "file" \/ inputs < MaxLines
  /\ mode = "repl" => src.nl = 0
  /\ Len(src.ids) <= MaxStmts - read
  /\ pc' = "scan"
  /\ source' = src
  /\ inputs' = inputs + 1
  /\ read' = read + Len(src.ids)
  /\ executed' = 0
  /\ stmts' = <<>>
  /\ ip' = 1
  /\ stderr' = <<>>
  /\ trace' = <<>>
  /\ UNCHANGED <<refs, envs, blocks, env, error_list, had_runtime_error, mode, exit_code,
                 pool, operator_vars, tokens, list_vars, scanner_vars>>

\* run_prompt: EOFError or KeyboardInterrupt at the prompt ends the program
PromptEnd ==
  /\ pc = "input"
  /\ mode = "repl"
  /\ pc' = "exit"
  /\ exit_code' = 0
  /\ UNCHANGED <<interpreter_vars, handler_vars, mode, source, stmts, ip, inputs, read, executed,
                 pool, operator_vars, tokens, list_vars, scanner_vars>>

\* Kiddou.run: scanner.scan_tokens(), then return if has_error
Scan ==
  /\ pc = "scan"
  /\ error_list' = error_list \o scan_errors(source)
  /\ pc' = IF has_error(error_list') THEN "ran" ELSE "parse"
  /\ UNCHANGED <<interpreter_vars, had_runtime_error, stderr, mode, exit_code, source, stmts,
                 ip, inputs, read, executed, pool, operator_vars, tokens, list_vars, scanner_vars>>

\* Kiddou.run: parser.parse(), then return if has_error
Parse ==
  /\ pc = "parse"
  /\ error_list' = error_list \o parse_errors(source)
  /\ stmts' = parse(source)
  /\ pc' = IF has_error(error_list') THEN "ran" ELSE "check"
  /\ UNCHANGED <<interpreter_vars, had_runtime_error, stderr, mode, exit_code, source, ip,
                 inputs, read, executed, pool, operator_vars, tokens, list_vars, scanner_vars>>

\* Interpreter.interpret: self._check(stmts), then return if has_error
Checking(c) ==
  /\ error_list' = error_list \o c.errs
  /\ stmts' = c.node

\* Check without the return on has_error
Check_without_return ==
  /\ pc = "check"
  /\ Checking(check(stmts, keys(Store, Globals)))
  /\ pc' = "exec"
  /\ ip' = 1
  /\ UNCHANGED <<interpreter_vars, had_runtime_error, stderr, mode, exit_code, source, inputs,
                 read, executed, pool, operator_vars, tokens, list_vars, scanner_vars>>

Check ==
  /\ pc = "check"
  /\ Checking(check(stmts, keys(Store, Globals)))
  /\ pc' = IF has_error(error_list') THEN "ran" ELSE "exec"
  /\ ip' = 1
  /\ UNCHANGED <<interpreter_vars, had_runtime_error, stderr, mode, exit_code, source, inputs, read,
                 executed, pool, operator_vars, tokens, list_vars, scanner_vars>>

\* Interpreter.interpret: one turn of the loop over the statements; a
\* KiddouError ends the loop and is handed to ErrorHandler.runtime_error,
\* any other exception leaves the program
\* Executing with the loop going on after the KiddouError was reported
Executing_without_abort(o) ==
  /\ refs' = o.st.refs
  /\ envs' = o.st.envs
  /\ blocks' = o.st.blocks
  /\ env' = o.st.env
  /\ trace' = o.st.trace
  /\ IF o.res.err = "" THEN
       /\ ip' = ip + 1
       /\ UNCHANGED <<pc, had_runtime_error, stderr, exit_code>>
     ELSE IF o.res.kiddou THEN
       /\ stderr' = stderr \o Printed("runtime",
                      <<KiddouError(<<o.res.err, o.res.msg>>, o.res.line)>>)
       /\ had_runtime_error' = TRUE
       /\ ip' = ip + 1
       /\ UNCHANGED <<pc, exit_code>>
     ELSE
       /\ pc' = "exit"
       /\ exit_code' = 1
       /\ UNCHANGED <<ip, had_runtime_error, stderr>>

\* o is the outcome of self._execute_stmt(stmt)
Executing(o) ==
  /\ refs' = o.st.refs
  /\ envs' = o.st.envs
  /\ blocks' = o.st.blocks
  /\ env' = o.st.env
  /\ trace' = o.st.trace
  /\ IF o.res.err = "" THEN
       /\ ip' = ip + 1
       /\ UNCHANGED <<pc, had_runtime_error, stderr, exit_code>>
     ELSE IF o.res.kiddou THEN
       /\ stderr' = stderr \o Printed("runtime",
                      <<KiddouError(<<o.res.err, o.res.msg>>, o.res.line)>>)
       /\ had_runtime_error' = TRUE
       /\ pc' = "ran"
       /\ UNCHANGED <<ip, exit_code>>
     ELSE
       /\ pc' = "exit"
       /\ exit_code' = 1
       /\ UNCHANGED <<ip, had_runtime_error, stderr>>

ExecuteStmt ==
  /\ pc = "exec"
  /\ ip <= Len(stmts)
  /\ Executing(execute_stmt(stmts[ip], [Store EXCEPT !.trace = <<>>], 0))
  /\ executed' = executed + 1
  /\ UNCHANGED <<error_list, mode, source, stmts, inputs, read, pool, operator_vars, tokens, list_vars, scanner_vars>>

\* Interpreter.interpret: the loop over the statements is over
InterpretDone ==
  /\ pc = "exec"
  /\ ip > Len(stmts)
  /\ pc' = "ran"
  /\ UNCHANGED <<interpreter_vars, handler_vars, mode, exit_code, source, stmts, ip, inputs, read,
                 executed, pool, operator_vars, tokens, list_vars, scanner_vars>>

\* run_file after run: flush and exit 65 if has_error, exit 75 if
\* had_runtime_error, else return
FileEnd ==
  /\ pc = "ran"
  /\ mode = "file"
  /\ pc' = "exit"
  /\ IF has_error(error_list) THEN
       /\ stderr' = stderr \o Printed("static", error_list)
       /\ error_list' = <<>>
       /\ had_runtime_error' = FALSE
       /\ exit_code' = 65
     ELSE
       /\ exit_code' = IF had_runtime_error THEN 75 ELSE 0
       /\ UNCHANGED handler_vars
  /\ UNCHANGED <<interpreter_vars, mode, source, stmts, ip, inputs, read, executed, pool,
                 operator_vars, tokens, list_vars, scanner_vars>>

\* run_prompt after run: error_handler.flush(), then the next prompt; the
\* locals of run are gone
PromptFlush ==
  /\ pc = "ran"
  /\ mode = "repl"
  /\ pc' = "input"
  /\ stderr' = stderr \o Printed("static", error_list)
  /\ error_list' = <<>>
  /\ had_runtime_error' = FALSE
  /\ source' = NoSource
  /\ stmts' = <<>>
  /\ ip' = 1
  /\ UNCHANGED <<interpreter_vars, mode, exit_code, inputs, read, executed, pool,
                 operator_vars, tokens, list_vars, scanner_vars>>

Next ==
  \/ Usage
  \/ StartFile
  \/ StartPrompt
  \/ \E src \in Sources(pool) : Read(src)
  \/ PromptEnd
  \/ Scan
  \/ Parse
  \/ Check
  \/ ExecuteStmt
  \/ InterpretDone
  \/ FileEnd
  \/ PromptFlush

Spec == Init /\ [][Next]_vars

(***************************************************************************)
(* The operators on their own: an expression `left op right` (or           *)
(* `op left`) over two operand values is evaluated by a new interpreter.   *)
(***************************************************************************)
\* the operand values: every class of value, the Ints and the integral
\* Floats up to MaxInt, and the non-finite Floats
Operands ==
  {Undef, Bool(TRUE), Bool(FALSE), Float(PyInf(1)), Float(PyInf(-1)), Float(PyNan),
   String(<<>>), String(<<"a">>), LibraryFunction("print"), KiddouBlock(1), KiddouModule}
    \cup {IntV(i) : i \in -MaxInt..MaxInt}
    \cup {Float(PyFloat(i, 1)) : i \in -MaxInt..MaxInt}

UnaryOps == {"NEGATE", "NOT"}

InitOps ==
  /\ KiddouInit
  /\ pool = 1
  /\ operands \in [left : Operands, right : Operands]
  /\ applied = NotApplied
  /\ tokens = <<>>
  /\ ls = <<>>
  /\ accessed = NotAccessed
  /\ scanner = NoScanner

\* Interpreter._evaluate_expr on Binary(Literal(left), op, Literal(right))
ApplyBinary(op) ==
  /\ applied = NotApplied
  /\ applied' = [operator |-> op,
                 res |-> evaluate_expr(Binary(Literal(operands.left, 1), op,
                                              Literal(operands.right, 1), 1),
                                       Store, 0).res]
  /\ UNCHANGED <<interpreter_vars, handler_vars, pc, mode, exit_code, source, stmts, ip,
                 inputs, read, executed, pool, operands, tokens, list_vars, scanner_vars>>

\* Interpreter._evaluate_expr on Unary(op, Literal(left))
ApplyUnary(op) ==
  /\ applied = NotApplied
  /\ applied' = [operator |-> op,
                 res |-> evaluate_expr(Unary(op, Literal(operands.left, 1), 1),
                                       Store, 0).res]
  /\ UNCHANGED <<interpreter_vars, handler_vars, pc, mode, exit_code, source, stmts, ip,
                 inputs, read, executed, pool, operands, tokens, list_vars, scanner_vars>>

\* a new interpreter with the operand values bound to the names left and
\* right
OperandStore ==
  [bind(bind(Store, Globals, "left", operands.left, FALSE),
        Globals, "right", operands.right, FALSE) EXCEPT !.trace = <<>>]

\* Interpreter._evaluate_expr on Binary(Variable left, op, Variable right):
\* the trace tells which operands were evaluated, in which order
Applying(op, o) ==
  /\ applied' = [operator |-> op, res |-> o.res]
  /\ trace' = o.st.trace

ApplyLazy(op) ==
  /\ applied = NotApplied
  /\ Applying(op, evaluate_expr(Binary(Variable("left", 1), op, Variable("right", 1), 1),
                                OperandStore, 0))
  /\ UNCHANGED <<refs, envs, blocks, env, handler_vars, pc, mode, exit_code, source, stmts, ip,
                 inputs, read, executed, pool, operands, tokens, list_vars, scanner_vars>>

NextOps ==
  \/ \E op \in StrictOps : ApplyBinary(op)
  \/ \E op \in LazyOps : ApplyLazy(op)
  \/ \E op \in UnaryOps : ApplyUnary(op)

SpecOps == InitOps /\ [][NextOps]_vars

(***************************************************************************)
(* The parser in the program: run_file on a file for which the scanner     *)
(* returns a given list of tokens.                                         *)
(***************************************************************************)
\* the token the scanner makes of a word at a line
TokenOf(word, line) ==
  CASE word = "con" -> Token("CON", line, word, PyNone)
    [] word = "run" -> Token("RUN", line, word, PyNone)
    [] word = "(" -> Token("LPAREN", line, word, PyNone)
    [] word = ")" -> Token("RPAREN", line, word, PyNone)
    [] word = "{" -> Token("LBRACE", line, word, PyNone)
    [] word = "}" -> Token("RBRACE", line, word, PyNone)
    [] word = "[" -> Token("LBRACKET", line, word, PyNone)
    [] word = "]" -> Token("RBRACKET", line, word, PyNone)
    [] word = "," -> Token("COMMA", line, word, PyNone)
    [] word = "." -> Token("DOT", line, word, PyNone)
    [] word = "->" -> Token("ARROW", line, word, PyNone)
    [] word = "=" -> Token("ASSIGN", line, word, PyNone)
    [] word = ":=" -> Token("RE_ASSIGN", line, word, PyNone)
    [] word = "+" -> Token("PLUS", line, word, PyNone)
    [] word = "0" -> Token("INT_LIT", line, word, IntV(0))
    [] word = "1" -> Token("INT_LIT", line, word, IntV(1))
    [] word = "2" -> Token("INT_LIT", line, word, IntV(2))
    [] word = "7" -> Token("INT_LIT", line, word, IntV(7))
    [] OTHER -> Token("IDENTIFIER", line, word, PyNone)

\* the tokens of a text written on one line
TokensOf(words) ==
  [i \in 1..Len(words) |-> TokenOf(words[i], 1)] \o <<Token("EOF", 1, "", PyNone)>>

\* the most arguments of a call in a token text
MaxCallArgs == 257

\* run print(1, ..., 1) with n arguments
CallWords(n) ==
  <<"run", "print", "(">> \o [i \in 1..(2 * n - 1) |-> IF i % 2 = 1 THEN "1" ELSE ","]
    \o <<")">>

\* constructors bound by a con statement
ConstructorWords ==
  {<<"con", "f", "=", "{", "1", "}">>,
   <<"con", "f", "=", "{", "1", "+", "2", "}">>,
   <<"con", "f", "=", "{", "1", ",", "2", "}">>,
   <<"con", "f", "=", "[", "1", "]">>,
   <<"con", "f", "=", "[", "1", ",", "2", "]">>,
   <<"con", "f", "=", "{", "->", "1", "}">>,
   <<"con", "f", "=", "{", "con", "a", "=", "1", "}">>,
   <<"con", "f", "=", "{", "con", "a", "=", "1", "->", "a", "}">>,
   <<"con", "f", "=", "{", "}">>,
   <<"con", "f", "=", "{", "1", "]">>,
   <<"con", "f", "=", "(", "1", ")">>}

\* run statements with a receiver, after a con statement
ReceiverWords ==
  {<<"con", "x", "=", "1">> \o run :
     run \in {<<"run", "x", ".", "a", "=", "1">>,
              <<"run", "x", ".", "a", ":=", "1">>,
              <<"run", "x", "[", "0", "]", "=", "1">>,
              <<"run", "x", "[", "0", "]", ":=", "1">>,
              <<"run", "y", "=", "1">>,
              <<"run", "x", ":=", "1">>,
              <<"run", "1", "=", "2">>,
              <<"x", "=", "2">>}}

\* a list, an assignment to index i of it and a read of the index
ListWords(i) ==
  <<"con", "xs", "=", "[", "1", ",", "2", "]",
    "run", "xs", "[", i, "]", ":=", "7",
    "run", "y", "=", "xs", "[", i, "]">>

\* texts with a syntax error followed by a group in brackets, which the
\* recovery skips
RecoveryWords ==
  {<<"x", "{", "1", "}", "con", "y", "=", "1">>,
   <<"x", "[", "1", "]", "con", "y", "=", "1">>,
   <<"x", "{", "1", "]", "con", "y", "=", "1">>,
   <<"x", "[", "1", "}", "con", "y", "=", "1">>,
   <<"x", "{", "1", "con", "y", "=", "1">>,
   <<"con", "=", "1", "run", "y", "=", "1">>}

TokenTexts ==
  {TokensOf(CallWords(n)) : n \in 0..MaxCallArgs}
    \cup {TokensOf(words) : words \in ConstructorWords \cup ReceiverWords \cup RecoveryWords
                                     \cup {ListWords("0"), ListWords("2")}}

InitParse ==
  /\ KiddouInit
  /\ pool = 1
  /\ operands = NoOperands
  /\ applied = NotApplied
  /\ tokens \in TokenTexts
  /\ ls = <<>>
  /\ accessed = NotAccessed
  /\ scanner = NoScanner

\* Kiddou.run: scanner.scan_tokens() returns tokens and reports no error
ScanTokens ==
  /\ pc = "input"
  /\ mode = "file"
  /\ inputs = 0
  /\ pc' = "parse"
  /\ inputs' = inputs + 1
  /\ UNCHANGED <<interpreter_vars, handler_vars, mode, exit_code, source, stmts, ip, read,
                 executed, pool, operator_vars, tokens, list_vars, scanner_vars>>

\* Kiddou.run: parser.parse(), then return if has_error; an exception
\* other than ParseError leaves the program
Parsing(parsed) ==
  IF parsed.exc # "" THEN
    /\ error_list' = error_list \o parsed.p.errs
    /\ pc' = "exit"
    /\ exit_code' = 1
    /\ UNCHANGED stmts
  ELSE
    /\ error_list' = error_list \o parsed.p.errs
    /\ stmts' = parsed.node
    /\ pc' = IF has_error(error_list') THEN "ran" ELSE "check"
    /\ UNCHANGED exit_code

ParseTokens ==
  /\ pc = "parse"
  /\ Parsing(parse_tokens(tokens))
  /\ UNCHANGED <<interpreter_vars, had_runtime_error, stderr, mode, source, ip, inputs, read,
                 executed, pool, operator_vars, tokens, list_vars, scanner_vars>>

NextParse ==
  \/ StartFile
  \/ ScanTokens
  \/ ParseTokens
  \/ Check
  \/ ExecuteStmt
  \/ InterpretDone
  \/ FileEnd

SpecParse == InitParse /\ [][NextParse]_vars

(***************************************************************************)
(* Lists: get and set of a KiddouList with given elements, on an index     *)
(* value and a value to write.                                             *)
(***************************************************************************)
\* the length of the Lists
MaxLen == 3

\* the elements of the Lists, and the values written
ListValues == {IntV(0), IntV(1)}

\* the index values: the Ints around the range of the longest List and
\* values of the other kinds
ListIndexes ==
  {IntV(i) : i \in -(MaxLen + 1)..(MaxLen + 1)}
    \cup {Undef, Bool(TRUE), Float(PyFloat(1, 1)), String(<<"a">>)}

InitList ==
  /\ KiddouInit
  /\ pool = 1
  /\ operands = NoOperands
  /\ applied = NotApplied
  /\ tokens = <<>>
  /\ ls \in Seqs(ListValues, MaxLen)
  /\ accessed = NotAccessed
  /\ scanner = NoScanner

\* o is what get or set returned
Accessing(op, index, value, o) ==
  /\ ls' = o.ls
  /\ accessed' = [op |-> op, index |-> index, value |-> value, res |-> o.res, before |-> ls]

\* KiddouList(ls).get(index)
ListGet(index) ==
  /\ accessed = NotAccessed
  /\ Accessing("get", index, Undef, list_get(ls, index))
  /\ UNCHANGED <<interpreter_vars, handler_vars, pc, mode, exit_code, source, stmts, ip,
                 inputs, read, executed, pool, operator_vars, tokens, scanner_vars>>

\* KiddouList(ls).set(index, value)
ListSet(index, value) ==
  /\ accessed = NotAccessed
  /\ Accessing("set", index, value, list_set(ls, index, value))
  /\ UNCHANGED <<interpreter_vars, handler_vars, pc, mode, exit_code, source, stmts, ip,
                 inputs, read, executed, pool, operator_vars, tokens, scanner_vars>>

NextList ==
  \/ \E index \in ListIndexes : ListGet(index)
  \/ \E index \in ListIndexes : \E value \in ListValues \cup {Undef} : ListSet(index, value)

SpecList == InitList /\ [][NextList]_vars

(***************************************************************************)
(* The scanner on a given source string: the loop of scan_tokens, one turn *)
(* at a time.                                                              *)
(***************************************************************************)
\* the length of the source strings
MaxChars == 3

\* the characters of the source strings
SourceChars == {"1", "E", "a", "\"", "&", "|", "@", "\n"}

InitScan ==
  /\ KiddouInit
  /\ pool = 1
  /\ operands = NoOperands
  /\ applied = NotApplied
  /\ tokens = <<>>
  /\ ls = <<>>
  /\ accessed = NotAccessed
  /\ scanner \in {Scanner(source_string) : source_string \in Seqs(SourceChars, MaxChars)}

\* sc is the scanner after a turn of the loop: an exception leaves
\* scan_tokens
Scanning(sc) ==
  /\ scanner' = [sc EXCEPT !.state = IF sc.exc # "" THEN "raised" ELSE "scanning"]
  /\ error_list' = sc.errs

\* scan_tokens: one turn of the loop
ScanToken ==
  /\ scanner.state = "scanning"
  /\ ~scanner_is_at_end(scanner)
  /\ Scanning(scan_token(scanner))
  /\ UNCHANGED <<interpreter_vars, had_runtime_error, stderr, pc, mode, exit_code, source, stmts,
                 ip, inputs, read, executed, pool, operator_vars, tokens, list_vars>>

\* scan_tokens after the loop: the EOF token is appended and the tokens
\* are returned
ScanEnd ==
  /\ scanner.state = "scanning"
  /\ scanner_is_at_end(scanner)
  /\ scanner' = [scanner EXCEPT !.tokens = Append(@, Token("EOF", scanner.line, <<>>, PyNone)),
                                !.state = "done"]
  /\ tokens' = scanner'.tokens
  /\ UNCHANGED <<interpreter_vars, handler_vars, pc, mode, exit_code, source, stmts, ip,
                 inputs, read, executed, pool, operator_vars, list_vars>>

NextScan ==
  \/ ScanToken
  \/ ScanEnd

SpecScan == InitScan /\ [][NextScan]_vars

(***************************************************************************)
(* Properties.                                                             *)
(***************************************************************************)
\* the events of kind k in the trace of the statement last executed
Events(k) == {i \in DOMAIN trace : trace[i].ev = k}

\* C1: for each of the thirteen operators + - * / // % ^ < <= > >= == !=,
\* when at least one operand is Undef the result is Undef and nothing is
\* raised, whatever the other operand is.
C1_UndefPropagates ==
  (applied.operator \in StrictOps /\ (operands.left = Undef \/ operands.right = Undef))
    => applied.res = Ok(Undef)

\* Undef // 0 has been evaluated, with Undef for its result
C1_Witness ==
  /\ applied.operator = "IDIVIDE"
  /\ operands.left = Undef
  /\ operands.right = IntV(0)
  /\ applied.res = Ok(Undef)

\* C2: a reassignment `:=` of a name whose binding is immutable (as the
\* binding a Con has just made is) raises an Immutable error, and the value
\* read for the name afterwards is the one it had; a reassignment of a name
\* that resolves to no binding raises a Name error and binds nothing.
C2_ConImmutable ==
  /\ \A i \in Events("overwrite") :
       /\ (trace[i].ref # 0 /\ ~trace[i].mutable) =>
            /\ trace[i].err = "Immutable"
            /\ get(Store, trace[i].env, trace[i].name) = Ok(trace[i].old)
       /\ trace[i].ref = 0 =>
            /\ trace[i].err = "Name"
            /\ trace[i].name \notin DOMAIN envs[trace[i].env].locals
  /\ (pc = "exec" /\ ip > 1 /\ stmts[ip - 1].t = "Con") =>
       /\ stmts[ip - 1].name \in DOMAIN envs[Globals].locals
       /\ ~refs[envs[Globals].locals[stmts[ip - 1].name]].mutable
       /\ trace[Len(trace)].ev = "bind"
       /\ trace[Len(trace)].ref = envs[Globals].locals[stmts[ip - 1].name]
       /\ trace[Len(trace)].val = refs[trace[Len(trace)].ref].val

\* `con x = 1` and then `run x := x + 1`: the Immutable error was raised
\* and x still reads 1
C2_Witness ==
  /\ pc = "ran"
  /\ had_runtime_error
  /\ ip = 2
  /\ stmts[1].t = "Con"
  /\ stmts[1].name = "x"
  /\ \E i \in Events("overwrite") : trace[i].name = "x" /\ trace[i].err = "Immutable"
  /\ get(Store, Globals, "x") = Ok(IntV(1))

\* C3: an attribute assignment `obj.name := v` on a Module or a Block whose
\* name is not a mutable local of the object's environment raises an error
\* and leaves the locals of that environment as they were (no binding is
\* created, the value of a Con local is unchanged).
C3_SetAttrOnlyMutableLocal ==
  \A i \in Events("set_attr") :
    (/\ pc \in {"exec", "ran"}
     /\ \/ trace[i].name \notin DOMAIN trace[i].locals
        \/ ~refs[trace[i].locals[trace[i].name]].mutable) =>
      /\ pc = "ran"
      /\ had_runtime_error
      /\ envs[trace[i].env].locals = trace[i].locals

\* C4: while a Block is being called, the variable `this` read in the body
\* yields that Block and raises nothing.
C4_ThisIsTheBlock ==
  \A i \in Events("get") : \A j \in Events("call") :
    (trace[i].name = "this" /\ trace[i].env = trace[j].env) =>
      /\ trace[i].err = ""
      /\ trace[i].val = KiddouBlock(trace[j].block)

\* the names bound in some environment, and one bound in none
Names == UNION {DOMAIN envs[e].locals : e \in 1..Len(envs)} \cup {"q"}

\* return event i is the last one of its block in the trace
LastReturn(i) ==
  \A j \in Events("return") : trace[j].block = trace[i].block => j <= i

\* C5: after a call of a Block has returned, reading an attribute named as
\* a local of the body yields the value that local had when the body ended;
\* reading any attribute of a Block that was never called raises an
\* Attribute error.
C5_AttributesAreFinalLocals ==
  pc \in {"exec", "ran"} =>
    /\ \A i \in Events("return") : LastReturn(i) =>
         \A nm \in DOMAIN trace[i].locals :
           get_attr(KiddouBlock(trace[i].block), nm, Store) = Ok(trace[i].locals[nm])
    /\ \A b \in 1..Len(blocks) : blocks[b].env = blocks[b].created =>
         \A nm \in Names : get_attr(KiddouBlock(b), nm, Store).err = "Attribute"

\* C6: every call of a Block starts with no locals and with the captured
\* references of the environment the Block was created with; two calls in
\* one statement that writes no existing reference return the same; and
\* after the calls the Block's environment is that of the call that
\* returned last.
C6_CallsStartFromCaptured ==
  pc \in {"exec", "ran"} =>
    /\ \A i \in Events("call") :
         /\ trace[i].locals = EmptyDict
         /\ trace[i].captured = envs[blocks[trace[i].block].created].env
    /\ \A i \in Events("return") : LastReturn(i) => blocks[trace[i].block].env = trace[i].env
    /\ \A i, j \in Events("return") :
         (trace[i].block = trace[j].block /\ \A w \in Events("overwrite") : trace[w].err # "")
           => (trace[i].val = trace[j].val /\ trace[i].err = trace[j].err)

\* `run k = 0`, `con f = { run k = k + 1 -> k }` and then
\* `run y = f() + f()`: both calls returned 1, and f.k is 1
C6_Witness ==
  /\ pc = "exec"
  /\ \E i, j \in Events("return") :
       /\ i < j
       /\ trace[i].block = trace[j].block
       /\ trace[i].val = IntV(1)
       /\ trace[j].val = IntV(1)
       /\ get_attr(KiddouBlock(trace[j].block), "k", Store) = Ok(IntV(1))
  /\ get(Store, Globals, "y") = Ok(IntV(2))
  /\ get(Store, Globals, "k") = Ok(IntV(0))

\* C7: when the body of a Block reassigns a variable it captured, the
\* reference written is the one the variable denoted in the enclosing scope
\* when the Block was made (so the enclosing scope reads the new value), and
\* it is the one every other Block that captured that variable holds.
C7_CapturedCellsShared ==
  pc \in {"exec", "ran"} =>
    \A w \in Events("overwrite") : \A c \in Events("call") :
      (/\ trace[w].err = ""
       /\ trace[w].env = trace[c].env
       /\ trace[w].name \in DOMAIN trace[c].captured
       /\ trace[w].ref = trace[c].captured[trace[w].name]) =>
        /\ blocks[trace[c].block].scope[trace[w].name] = trace[w].ref
        /\ \A b \in 1..Len(blocks) :
             (/\ trace[w].name \in DOMAIN blocks[b].scope
              /\ blocks[b].scope[trace[w].name] = blocks[trace[c].block].scope[trace[w].name])
               => envs[blocks[b].created].env[trace[w].name] = trace[w].ref

RECURSIVE NameLines(_, _, _)
RECURSIVE NameLinesOfAll(_, _, _, _)

\* the lines, one for each occurrence and in source order, at which node
\* uses the name nm as a variable (what = "use": a Variable expression or
\* the receiver of a `:=`) or declares it (what = "declare": a Con or the
\* receiver of a Run with `=`)
NameLines(node, nm, what) ==
  CASE node.t \in {"None", "Literal"} -> <<>>
    [] node.t = "Variable" -> IF what = "use" /\ node.name = nm THEN <<node.line>> ELSE <<>>
    [] node.t = "Unary" -> NameLines(node.expr, nm, what)
    [] node.t = "Binary" -> NameLines(node.left, nm, what) \o NameLines(node.right, nm, what)
    [] node.t = "Call" ->
         NameLines(node.callee, nm, what) \o NameLinesOfAll(node.arguments, 1, nm, what)
    [] node.t = "Index" ->
         NameLines(node.container, nm, what) \o NameLines(node.index, nm, what)
    [] node.t = "Attribute" -> NameLines(node.obj, nm, what)
    [] node.t = "Block" ->
         NameLinesOfAll(node.stmts, 1, nm, what) \o NameLines(node.expr, nm, what)
    [] node.t = "Sequence" -> NameLinesOfAll(node.elements, 1, nm, what)
    [] node.t = "Con" ->
         NameLines(node.expr, nm, what)
           \o (IF what = "declare" /\ node.name = nm THEN <<node.line_start>> ELSE <<>>)
    [] node.t = "Run" ->
         NameLines(node.expr, nm, what)
           \o (IF node.receiver.t # "Variable" THEN NameLines(node.receiver, nm, what)
               ELSE IF node.receiver.name = nm /\ (what = "use") = node.reassign
                 THEN <<node.receiver.line>>
               ELSE <<>>)

NameLinesOfAll(nodes, i, nm, what) ==
  IF i > Len(nodes) THEN <<>>
  ELSE NameLines(nodes[i], nm, what) \o NameLinesOfAll(nodes, i + 1, nm, what)

\* the number of entries of the sequence q that are x
Count(q, x) == Cardinality({i \in DOMAIN q : q[i] = x})

\* C8: when the name z is bound in no environment and declared nowhere in
\* the program, each use of z as a variable, at whatever depth of blocks,
\* is reported once as an undefined variable at the line of the use, and no
\* statement of the program is executed.
C8_EveryUseReported ==
  (/\ pc \in {"exec", "ran"}
   /\ source.bad = ""
   /\ "z" \notin keys(Store, Globals)
   /\ NameLinesOfAll(stmts, 1, "z", "declare") = <<>>
   /\ NameLinesOfAll(stmts, 1, "z", "use") # <<>>) =>
    /\ executed = 0
    /\ \A ln \in 1..Len(error_list) + Len(stmts) * 5 :
         Count(error_list, report_undefined("z", ln))
           = Count(NameLinesOfAll(stmts, 1, "z", "use"), ln)

\* a static error of the source text is recorded, or was printed for it
StaticErrors == error_list # <<>> \/ \E i \in DOMAIN stderr : stderr[i].kind = "static"

C10_RuntimeErrorAborts ==
  /\ had_runtime_error =>
       /\ pc \in {"ran", "exit"}
       /\ ip <= Len(stmts)
       /\ executed = ip
       /\ Cardinality({i \in DOMAIN stderr : stderr[i].kind = "runtime"}) = 1
       /\ \A j \in 1..(ip - 1) :
            /\ stmts[j].t = "Con" => stmts[j].name \in DOMAIN envs[Globals].locals
            /\ (stmts[j].t = "Run" /\ stmts[j].receiver.t = "Variable"
                  /\ ~stmts[j].reassign)
                 => stmts[j].receiver.name \in DOMAIN envs[Globals].locals
       /\ pc = "exit" => (mode = "file" /\ exit_code = 75)
  /\ (mode = "repl" /\ pc \in {"input", "scan"}) =>
       (~had_runtime_error /\ error_list = <<>>)

\* a file of three statements whose second raised a runtime error: x,
\* bound by the first, is still bound, the third was not executed and the
\* exit code is 75
C10_Witness ==
  /\ pc = "exit"
  /\ mode = "file"
  /\ had_runtime_error
  /\ Len(stmts) = 3
  /\ ip = 2
  /\ executed = 2
  /\ stmts[1].t = "Con"
  /\ get(Store, Globals, "x") = Ok(IntV(1))
  /\ exit_code = 75

\* C11: every Block call leaves the interpreter's current environment as
\* it was just before the call, on a normal return and on an error, at any
\* nesting depth; and whenever no call is in progress (in every state of
\* the driver) the current environment is the globals.
C11_EnvRestored ==
  /\ env = Globals
  /\ \A r \in Events("return") :
       \E c \in Events("call") :
         /\ c < r
         /\ trace[c].env = trace[r].env
         /\ trace[c].block = trace[r].block
         /\ trace[c].depth = trace[r].depth
         /\ trace[r].current = trace[c].caller

\* a call nested in another call has ended by a runtime error, the caller
\* of it was running in an environment of its own, and the statement is
\* over with the globals current
C11_Witness ==
  /\ pc = "ran"
  /\ had_runtime_error
  /\ env = Globals
  /\ \E r \in Events("return") :
       /\ trace[r].depth = 1
       /\ trace[r].err = "Division"
       /\ trace[r].current # Globals
       /\ trace[r].current # trace[r].env

\* the statement last executed is a Run of `left ? right`
DomainExecuted ==
  /\ pc \in {"exec", "ran"}
  /\ executed \in 1..Len(stmts)
  /\ stmts[executed].t = "Run"
  /\ stmts[executed].expr.t = "Binary"
  /\ stmts[executed].expr.operator = "DOMAIN"

\* C12: in `left ? right` the guard `right` is evaluated first; when its
\* value is falsey the result is Undef and `left` is not evaluated at all
\* (no read, no call and no error of it happens); otherwise `left` is
\* evaluated after the guard and its value, or its error, is the result.
C12_DomainGuardFirst ==
  DomainExecuted =>
    /\ Len(trace) >= 1
    /\ trace[1].ev = "get"
    /\ trace[1].name = stmts[executed].expr.right.name
    /\ trace[1].err = ""
    /\ IF is_falsey(trace[1].val)
         THEN /\ Len(trace) = 2
              /\ trace[2].ev = "bind"
              /\ trace[2].name = stmts[executed].receiver.name
              /\ trace[2].val = Undef
              /\ ~had_runtime_error
              /\ get(Store, Globals, stmts[executed].receiver.name) = Ok(Undef)
         ELSE /\ Len(trace) >= 2
              /\ trace[2].ev = "get"
              /\ trace[2].name = stmts[executed].expr.left.callee.name
              /\ \E r \in Events("return") :
                   /\ trace[r].depth = 0
                   /\ IF trace[r].err = ""
                        THEN /\ ~had_runtime_error
                             /\ get(Store, Globals, stmts[executed].receiver.name)
                                  = Ok(trace[r].val)
                        ELSE had_runtime_error

\* `f() ? b` has been executed with b = false: b was read, nothing else
\* was read or called, and y was bound to Undef
C12_Witness ==
  /\ DomainExecuted
  /\ Len(trace) = 2
  /\ trace[1] = [ev |-> "get", env |-> Globals, name |-> "b", err |-> "",
                 val |-> Bool(FALSE)]
  /\ trace[2].ev = "bind"
  /\ ~had_runtime_error
  /\ get(Store, Globals, "y") = Ok(Undef)
  /\ get(Store, Globals, "f").val.k = "Block"

\* the left operand decides the result of the operator applied
LeftDecides ==
  CASE applied.operator = "AND" -> operands.left \in {Undef, Bool(FALSE)}
    [] applied.operator = "OR" -> operands.left \notin {Undef, Bool(FALSE)}
    [] applied.operator = "PIECE" -> operands.left # Undef

\* C13: `&&`, `||` and `;` evaluate the left operand first; when it decides
\* the result (falsey for `&&`, truthy for `||`, not Undef for `;`, where
\* falsey is Undef or Bool(false) and nothing else) the result is the left
\* value and the right operand is not evaluated; otherwise the right
\* operand is evaluated next and its value is the result.
C13_ShortCircuit ==
  applied.operator \in {"AND", "OR", "PIECE"} =>
    /\ Len(trace) >= 1
    /\ trace[1].ev = "get"
    /\ trace[1].name = "left"
    /\ IF LeftDecides
         THEN Len(trace) = 1 /\ applied.res = Ok(operands.left)
         ELSE /\ Len(trace) = 2
              /\ trace[2].ev = "get"
              /\ trace[2].name = "right"
              /\ applied.res = Ok(operands.right)

\* `0 || ""` has been evaluated: Int 0 is truthy, so it is the result and
\* the right operand was not read
C13_Witness ==
  /\ applied.operator = "OR"
  /\ operands.left = IntV(0)
  /\ operands.right = String(<<>>)
  /\ applied.res = Ok(IntV(0))
  /\ Len(trace) = 1

\* the primitive kinds of value
PrimitiveKinds == {"Bool", "Int", "Float", "String"}

\* C14: for two values of primitive kinds (Bool, Int, Float, String), `==`
\* yields false and `!=` true when the kinds differ; when the kinds are the
\* same the result is the comparison of the underlying values.
C14_EqualityByKind ==
  (/\ applied.operator \in {"EQUAL", "NOT_EQUAL"}
   /\ operands.left.k \in PrimitiveKinds
   /\ operands.right.k \in PrimitiveKinds) =>
    IF operands.left.k # operands.right.k
      THEN applied.res = Ok(Bool(applied.operator = "NOT_EQUAL"))
      ELSE applied.res = Ok(Bool((applied.operator = "EQUAL")
                                   = PyEq(operands.left.val, operands.right.val)))

\* q is the floor of x / y, for y # 0
IsFloorQuotient(q, x, y) ==
  IF y > 0 THEN q * y <= x /\ x < (q + 1) * y
  ELSE q * y >= x /\ x > (q + 1) * y

\* C15: for Int x, `x // 0` and `x % 0` raise a Division error that
\* reaches the caller as a KiddouError (the form interpret reports as a
\* runtime error), never a host exception and never a value; for Int x and
\* Int y # 0, `x // y` is the Int floor of x / y and `x % y` the Int
\* remainder x - y * floor(x / y).
C15_IntegerDivision ==
  (/\ applied.operator \in {"IDIVIDE", "MODULUS"}
   /\ operands.left.k = "Int"
   /\ operands.right.k = "Int") =>
    LET x == operands.left.val.n
        y == operands.right.val.n
    IN  IF y = 0
          THEN applied.res.err = "Division" /\ applied.res.kiddou
          ELSE /\ applied.res.err = ""
               /\ applied.res.val.k = "Int"
               /\ applied.res.val.val.t = "int"
               /\ \E q \in (-MaxInt - 1)..(MaxInt + 1) :
                    /\ IsFloorQuotient(q, x, y)
                    /\ applied.res.val.val.n =
                         (IF applied.operator = "IDIVIDE" THEN q ELSE x - y * q)

\* -1 // 2 has been evaluated: the quotient is -1, the floor
C15_Witness ==
  /\ applied.operator = "IDIVIDE"
  /\ operands.left = IntV(-1)
  /\ operands.right = IntV(2)
  /\ applied.res = Ok(IntV(-1))

\* C16: for all Int operands a and b, `a ^ b` raises nothing and yields an
\* Int whose payload is an integer.
C16_IntPowerIsInt ==
  (/\ applied.operator = "POWER"
   /\ operands.left.k = "Int"
   /\ operands.right.k = "Int") =>
    /\ applied.res.err = ""
    /\ applied.res.val.k = "Int"
    /\ applied.res.val.val.t = "int"

\* the parser has returned, and the handler still holds what it reported
AfterParse == pc \in {"check", "exec", "ran"}

\* C17: a Run with an Index receiver `xs[i] := v` on a List replaces element
\* i in place when i is in range, so that a later read of xs[i] gives v, and
\* raises an IndexOutOfBounds error when i is out of range: the file
\* `con xs = [1, 2]  run xs[0] := 7  run y = xs[0]` ends with exit code 0
\* and y bound to 7, and the same file with index 2 ends with exit code 75
\* after an IndexOutOfBounds error.
C17_IndexAssignment ==
  pc = "exit" =>
    /\ tokens = TokensOf(ListWords("0")) =>
         /\ exit_code = 0
         /\ get(Store, Globals, "y") = Ok(IntV(7))
    /\ tokens = TokensOf(ListWords("2")) =>
         /\ exit_code = 75
         /\ \E i \in DOMAIN stderr : stderr[i].error.message[1] = "IndexOutOfBounds"

\* the top-level Run statements that assign with `=` to an attribute or to
\* an index
CreatingRuns ==
  {i \in DOMAIN stmts : /\ stmts[i].t = "Run"
                         /\ stmts[i].receiver # NoExpr
                         /\ stmts[i].receiver.t \in {"Attribute", "Index"}
                         /\ ~stmts[i].reassign}

\* C18: a program with a Run statement whose receiver is an Attribute or an
\* Index expression and whose assignment is `=` is rejected with a static
\* error before any statement is executed: nothing of it is executed, and
\* the file ends with exit code 65.
C18_CreationRejected ==
  CreatingRuns # {} =>
    /\ executed = 0
    /\ pc # "exec"
    /\ pc = "ran" => has_error(error_list)
    /\ pc = "exit" => exit_code = 65

\* the texts `con f = { e }`
SingleExpressionTexts ==
  {TokensOf(<<"con", "f", "=", "{", "1", "}">>),
   TokensOf(<<"con", "f", "=", "{", "1", "+", "2", "}">>)}

\* C19: a constructor group that holds one expression not followed by a
\* comma parses to a Block with no statement whose tail is the expression,
\* and to a Sequence only when a comma follows the first expression; so
\* `{ e }` is a lazy Block and the checker reports nothing for it.
C19_SingleExpressionBlock ==
  /\ (AfterParse /\ tokens \in SingleExpressionTexts) =>
       /\ Len(stmts) = 1
       /\ stmts[1].expr.t = "Block"
       /\ stmts[1].expr.stmts = <<>>
       /\ stmts[1].expr.expr # NoExpr
       /\ error_list = <<>>
  /\ (AfterParse /\ tokens = TokensOf(<<"con", "f", "=", "{", "1", ",", "2", "}">>)) =>
       stmts[1].expr.t = "Sequence"

\* the number of arguments of the call of a text `run print(1, ..., 1)`
CallArguments == Cardinality({i \in DOMAIN tokens : tokens[i].token_type = "INT_LIT"})

\* the errors reported for the number of arguments
ArgumentCountErrors ==
  {i \in DOMAIN error_list :
     error_list[i].message = <<"Can't pass more than 255 arguments.", "">>}

\* C20: a call with n arguments is parsed without an argument-count error
\* if and only if n <= 255 (so a call with 256 arguments records one), and
\* the error is not fatal: the Call node with the n arguments is still
\* produced.
C20_ArgumentLimit ==
  (AfterParse /\ tokens[2].lexeme = "print") =>
    /\ ArgumentCountErrors = {} <=> CallArguments <= MaxArguments
    /\ Len(stmts) = 1
    /\ stmts[1].expr.t = "Call"
    /\ Len(stmts[1].expr.arguments) = CallArguments

\* C22: the environment that copy_retain builds when a Block is evaluated
\* resolves every name of the Block's dependent_names to the reference
\* that a lookup of the name in the enclosing environment returns (locals
\* first, then captured), also when the name is bound both in the locals
\* and in the captured map of the enclosing environment.
C22_CapturesEnclosingReference ==
  \A b \in 1..Len(blocks) :
    \A nm \in blocks[b].body.dependent_names \cap DOMAIN blocks[b].scope :
      envs[blocks[b].created].env[nm] = blocks[b].scope[nm]

RECURSIVE Origins(_)
\* the environments e was derived from by a chain of copy_retain calls
Origins(e) == IF envs[e].origin = 0 THEN {} ELSE {envs[e].origin} \cup Origins(envs[e].origin)

\* C23: retention is monotone along chains of copy_retain calls: every name
\* in the captured map of an environment is in the captured map of every
\* environment derived from it, with the same reference; so a read, in the
\* body of a Block, of a name that an environment up the chain captured
\* never finds the name undefined.
C23_RetentionMonotone ==
  /\ \A e \in 1..Len(envs) : \A o \in Origins(e) : \A nm \in DOMAIN envs[o].env :
       /\ nm \in DOMAIN envs[e].env
       /\ envs[e].env[nm] = envs[o].env[nm]
  /\ pc \in {"exec", "ran"} =>
       \A i \in Events("get") :
         (\E o \in Origins(trace[i].env) : trace[i].name \in DOMAIN envs[o].env)
           => trace[i].err = ""

\* `run b = 1`, `con f = { con g = { -> 1 // b } -> g() }` and then
\* `run y = f() ? b`: the Block g, whose dependent_names is empty, was
\* called from the body of f and has read the global b that f captured
C23_Witness ==
  /\ pc = "exec"
  /\ \E c \in Events("call") : \E i \in Events("get") :
       /\ trace[c].depth = 1
       /\ blocks[trace[c].block].body.dependent_names = {}
       /\ trace[i].env = trace[c].env
       /\ trace[i].name = "b"
       /\ trace[i].err = ""
       /\ trace[i].val = IntV(1)
       /\ Cardinality(Origins(trace[i].env)) >= 3
  /\ get(Store, Globals, "y") = Ok(IntV(1))

\* the overwrite events of reassigned variables: those of set_attr follow
\* the set_attr event
Reassignments ==
  {i \in Events("overwrite") : i = 1 \/ trace[i - 1].ev # "set_attr"}

\* C28: when checking a program has reported no error, no read of a
\* variable and no reassignment of a variable made while executing it, at
\* top level or inside a call of a block, raises a Name (undefined
\* variable) error.
C28_CheckedNamesAreBound ==
  (pc \in {"exec", "ran"} /\ ~has_error(error_list)) =>
    /\ \A i \in Events("get") : trace[i].err # "Name"
    /\ \A i \in Reassignments : trace[i].err # "Name"

\* the runtime errors printed for the text
RuntimeErrorsPrinted == {i \in DOMAIN stderr : stderr[i].kind = "runtime"}

\* C27: a run of interpret on a checked statement list ends with all the
\* statements executed and nothing reported, or with exactly one runtime
\* error reported through the handler; no exception of the host escapes,
\* whatever expressions (Index and Sequence included) the program holds.
C27_InterpretEndsCleanly ==
  (pc \in {"ran", "exit"} /\ executed > 0) =>
    /\ ~(pc = "exit" /\ exit_code = 1)
    /\ IF had_runtime_error
         THEN Cardinality(RuntimeErrorsPrinted) = 1
         ELSE executed = Len(stmts) /\ RuntimeErrorsPrinted = {}

\* C26: for a token list ending in EOF, parse() returns a statement list
\* and raises nothing: a syntax error, a closing bracket that does not
\* match its opening one met while the recovery skips a group included, is
\* recorded in the error handler and the parser goes on; so the program
\* never ends with an exception of the host (exit code 1) before the
\* check, and after the parse of a text with a syntax error the handler
\* holds an error.
C26_ParseReturns ==
  /\ ~(pc = "exit" /\ exit_code = 1 /\ executed = 0)
  /\ (pc \in {"check", "ran", "exit"} /\ tokens \in {TokensOf(w) : w \in RecoveryWords}) =>
       (error_list # <<>> \/ \E i \in DOMAIN stderr : stderr[i].kind = "static")

\* the events before event i that wrote Reference r with `:=`
WritesBefore(r, i) ==
  {j \in Events("overwrite") : j < i /\ trace[j].ref = r /\ trace[j].err = ""}

\* the value Reference r was made with (or had when the statement began)
MadeWith(r) ==
  IF \E j \in Events("bind") : trace[j].ref = r
    THEN trace[CHOOSE j \in Events("bind") :
                 /\ trace[j].ref = r
                 /\ \A k \in Events("bind") : trace[k].ref = r => j <= k].val
  ELSE IF WritesBefore(r, Len(trace) + 1) # {}
    THEN trace[CHOOSE j \in WritesBefore(r, Len(trace) + 1) :
                 \A k \in WritesBefore(r, Len(trace) + 1) : j <= k].old
  ELSE refs[r].val

\* the value of Reference r at event i when only `:=` has changed it
ValueAt(r, i) ==
  IF WritesBefore(r, i) # {}
    THEN trace[CHOOSE j \in WritesBefore(r, i) : \A k \in WritesBefore(r, i) : k <= j].new
  ELSE MadeWith(r)

\* the reads made in a call of a Block of a name the Block captured when
\* it was evaluated, the name not being bound in the call: <<read, call>>
CapturedReads ==
  {ij \in Events("get") \X Events("call") :
     /\ ij[2] < ij[1]
     /\ trace[ij[1]].env = trace[ij[2]].env
     /\ trace[ij[1]].name \in DOMAIN envs[blocks[trace[ij[2]].block].env].env
     /\ ~\E k \in Events("bind") :
           k < ij[1] /\ trace[k].env = trace[ij[1]].env /\ trace[k].name = trace[ij[1]].name}

Calls ==
  {cr \in Events("call") \X Events("return") :
     /\ cr[1] < cr[2]
     /\ trace[cr[1]].env = trace[cr[2]].env
     /\ trace[cr[1]].depth = trace[cr[2]].depth}

\* the dictionaries before and after bind the same names to the same
\* References with the same flags
SameCells(before, after) ==
  /\ DOMAIN after = DOMAIN before
  /\ \A nm \in DOMAIN before :
       /\ after[nm].ref = before[nm].ref
       /\ after[nm].mutable = before[nm].mutable

\* what the environment with bindings b reads for nm: locals first
ReadIn(b, nm) == IF nm \in DOMAIN b.locals THEN b.locals[nm] ELSE b.env[nm]

\* C25: a call of a Block leaves the environment of the caller with the
\* same bound names, the same References and the same mutability flags as
\* before the call (and current again); and a `con n` or `run n = v` in the
\* body makes a Reference the caller does not hold, so that the value the
\* caller reads for a binding of the same name is the one before the call
\* unless a `:=` wrote its Reference during the call.
C25_NamesDoNotLeak ==
  pc \in {"exec", "ran"} =>
    \A cr \in Calls :
      /\ SameCells(trace[cr[1]].before.locals, trace[cr[2]].after.locals)
      /\ SameCells(trace[cr[1]].before.env, trace[cr[2]].after.env)
      /\ trace[cr[2]].current = trace[cr[1]].caller
      /\ \A k \in Events("bind") :
           (/\ cr[1] < k
            /\ k < cr[2]
            /\ trace[k].env = trace[cr[1]].env
            /\ trace[k].name \in DOMAIN trace[cr[1]].before.locals
                                \cup DOMAIN trace[cr[1]].before.env) =>
             /\ trace[k].ref # ReadIn(trace[cr[1]].before, trace[k].name).ref
             /\ (\A w \in Events("overwrite") :
                   ~(/\ cr[1] < w
                     /\ w < cr[2]
                     /\ trace[w].err = ""
                     /\ trace[w].ref = ReadIn(trace[cr[1]].before, trace[k].name).ref))
                  => ReadIn(trace[cr[2]].after, trace[k].name).val
                       = ReadIn(trace[cr[1]].before, trace[k].name).val

\* after `run k = 0` and `con f = { run k = k + 1 -> k }`, the statement
\* `run y = f() + f()` has called f twice; each call bound k to 1 in its
\* own environment and the global k still reads 0
C25_Witness ==
  /\ pc = "exec"
  /\ get(Store, Globals, "k") = Ok(IntV(0))
  /\ get(Store, Globals, "y") = Ok(IntV(2))
  /\ \E cr \in Calls : \E k \in Events("bind") :
       /\ cr[1] < k
       /\ k < cr[2]
       /\ trace[k].env = trace[cr[1]].env
       /\ trace[k].name = "k"
       /\ trace[k].val = IntV(1)
       /\ trace[cr[1]].caller = Globals
       /\ ReadIn(trace[cr[2]].after, "k").val = IntV(0)

\* the name statement stmt declares: that of a Con, or of a Run with `=`
\* and a Variable receiver
DeclaredBy(stmt) ==
  IF stmt.t = "Con" THEN {stmt.name}
  ELSE IF stmt.receiver.t = "Variable" /\ ~stmt.reassign THEN {stmt.receiver.name}
  ELSE {}

RECURSIVE Referenced(_, _)
RECURSIVE ReferencedInBody(_, _, _, _)

\* the names node references at a point where they are not declared, when
\* declared holds the names declared so far in the body node is part of; a
\* nested Block references what its body references before declaring it
\* (`this` is its own)
Referenced(node, declared) ==
  CASE node.t \in {"None", "Literal"} -> {}
    [] node.t = "Variable" -> {node.name} \ declared
    [] node.t = "Unary" -> Referenced(node.expr, declared)
    [] node.t = "Binary" -> Referenced(node.left, declared) \cup Referenced(node.right, declared)
    [] node.t = "Call" ->
         Referenced(node.callee, declared)
           \cup UNION {Referenced(node.arguments[i], declared) : i \in DOMAIN node.arguments}
    [] node.t = "Index" ->
         Referenced(node.container, declared) \cup Referenced(node.index, declared)
    [] node.t = "Attribute" -> Referenced(node.obj, declared)
    [] node.t = "Sequence" ->
         UNION {Referenced(node.elements[i], declared) : i \in DOMAIN node.elements}
    [] node.t = "Block" -> ReferencedInBody(node.stmts, 1, node.expr, {"this"}) \ declared
    [] node.t = "Con" -> Referenced(node.expr, declared)
    [] node.t = "Run" ->
         Referenced(node.expr, declared)
           \cup (IF node.receiver.t = "Variable"
                   THEN (IF node.reassign THEN {node.receiver.name} \ declared ELSE {})
                 ELSE Referenced(node.receiver, declared))

\* the same for the statements of a body from statement i on and its result
\* expression
ReferencedInBody(body, i, result, declared) ==
  IF i > Len(body) THEN Referenced(result, declared)
  ELSE Referenced(body[i], declared)
         \cup ReferencedInBody(body, i + 1, result, declared \cup DeclaredBy(body[i]))

RECURSIVE DependentNamesExact(_, _)
RECURSIVE DependentNamesExactInBody(_, _, _, _)

\* every Block in node has for dependent_names the names of scope, the
\* immediately enclosing scope at the Block, that its body references
\* before declaring them; and so have the Blocks nested in it
DependentNamesExact(node, scope) ==
  CASE node.t \in {"None", "Literal", "Variable"} -> TRUE
    [] node.t = "Unary" -> DependentNamesExact(node.expr, scope)
    [] node.t = "Binary" ->
         DependentNamesExact(node.left, scope) /\ DependentNamesExact(node.right, scope)
    [] node.t = "Call" ->
         /\ DependentNamesExact(node.callee, scope)
         /\ \A i \in DOMAIN node.arguments : DependentNamesExact(node.arguments[i], scope)
    [] node.t = "Index" ->
         DependentNamesExact(node.container, scope) /\ DependentNamesExact(node.index, scope)
    [] node.t = "Attribute" -> DependentNamesExact(node.obj, scope)
    [] node.t = "Sequence" ->
         \A i \in DOMAIN node.elements : DependentNamesExact(node.elements[i], scope)
    [] node.t = "Block" ->
         /\ node.dependent_names
              = scope \cap ReferencedInBody(node.stmts, 1, node.expr, {"this"})
         /\ "this" \notin node.dependent_names
         /\ DependentNamesExactInBody(node.stmts, 1, node.expr, {"this"})
    [] node.t = "Con" -> DependentNamesExact(node.expr, scope)
    [] node.t = "Run" ->
         DependentNamesExact(node.expr, scope) /\ DependentNamesExact(node.receiver, scope)

\* the same for the statements from statement i on, and the result
\* expression, of a body (or of the program, with NoExpr for result) whose
\* scope holds the names scope before statement i
DependentNamesExactInBody(body, i, result, scope) ==
  IF i > Len(body) THEN DependentNamesExact(result, scope)
  ELSE /\ DependentNamesExact(body[i], scope)
       /\ DependentNamesExactInBody(body, i + 1, result, scope \cup DeclaredBy(body[i]))

\* C24: for every Block B of a checked program, dependent_names is exactly
\* the set of the names of the immediately enclosing scope (the names of
\* the environment and those declared before B at top level; `this` and
\* the names declared before B in the body that holds a nested B) that the
\* body of B, nested blocks included, references at a point where the name
\* is not yet declared inside B; it never holds `this`.
C24_DependentNamesExact ==
  (pc = "exec" /\ ip = 1) =>
    DependentNamesExactInBody(stmts, 1, NoExpr, keys(Store, Globals))

\* position i of a List of length len, from 1, for -len <= i < len
Position(i, len) == IF i >= 0 THEN i + 1 ELSE len + i + 1

\* C30: for a List of length L and an Int index i, get returns the element
\* at i when 0 <= i < L, the element at L + i when -L <= i < 0 and Undef
\* otherwise, and raises nothing; set writes that position when
\* -L <= i < L and otherwise raises IndexOutOfBounds and leaves every
\* element as it was; with an index that is not an Int both raise a Type
\* error and the List is unchanged.
C30_ListIndexing ==
  accessed.op # "" =>
    IF accessed.index.k # "Int" THEN
      /\ accessed.res.err = "Type"
      /\ ls = accessed.before
    ELSE IF accessed.op = "get" THEN
      /\ ls = accessed.before
      /\ accessed.res
           = Ok(IF -Len(accessed.before) <= accessed.index.val.n
                   /\ accessed.index.val.n < Len(accessed.before)
                  THEN accessed.before[Position(accessed.index.val.n, Len(accessed.before))]
                ELSE Undef)
    ELSE IF -Len(accessed.before) <= accessed.index.val.n
            /\ accessed.index.val.n < Len(accessed.before) THEN
      /\ accessed.res.err = ""
      /\ Len(ls) = Len(accessed.before)
      /\ \A j \in DOMAIN ls :
           ls[j] = IF j = Position(accessed.index.val.n, Len(accessed.before))
                     THEN accessed.value ELSE accessed.before[j]
    ELSE
      /\ accessed.res.err = "IndexOutOfBounds"
      /\ ls = accessed.before

\* set with the index -L on [0, 1, 0] has written the first element, the
\* lowest index in range
C30_Witness ==
  /\ accessed.op = "set"
  /\ accessed.before = <<IntV(0), IntV(1), IntV(0)>>
  /\ accessed.index = IntV(-3)
  /\ accessed.value = IntV(1)
  /\ accessed.res = Ok(Undef)
  /\ ls = <<IntV(1), IntV(1), IntV(0)>>

\* the source string has a lexical error in its first character: an
\* unknown character, a bare `&` or `|`, or a quote with no closing quote
FirstCharacterError ==
  /\ scanner.source # <<>>
  /\ \/ scanner.source[1] = "@"
     \/ /\ scanner.source[1] \in {"&", "|"}
        /\ (Len(scanner.source) = 1 \/ scanner.source[2] # scanner.source[1])
     \/ /\ scanner.source[1] = "\""
        /\ \A i \in 2..Len(scanner.source) : scanner.source[i] # "\""

\* C21: for every source string scan_tokens returns a token list that
\* ends with EOF, and no lexical error aborts the scanning: no exception
\* leaves scan_tokens, the scanner never is past the end of the source, and
\* once the first turn of the loop is over an unknown character, a bare
\* `&` or `|` or an unterminated string at the head of the source is
\* recorded in the error handler.
C21_ScanCompletes ==
  /\ scanner.state # "raised"
  /\ scanner.current <= Len(scanner.source)
  /\ scanner.state = "done" =>
       /\ tokens # <<>>
       /\ tokens[Len(tokens)].token_type = "EOF"
       /\ \A i \in 1..(Len(tokens) - 1) : tokens[i].token_type # "EOF"
  /\ (FirstCharacterError /\ scanner.current > 0) => error_list # <<>>
====
